---- MODULE Spec2Model ----
(***************************************************************************)
(* State-machine model of the zk-pool program (programs/zk-pool/src).      *)
(*                                                                         *)
(* Every instruction of the program is one action.  A handler is an        *)
(* operator that walks through the handler's statements in source order    *)
(* and returns the result kind together with the account contents it has   *)
(* staged at the moment it returns; the action then commits the staged     *)
(* contents when the handler returned Ok and discards them otherwise, as   *)
(* the ledger does with a failed transaction.                              *)
(*                                                                         *)
(* 32-byte words are kept in the state by name; WordBytes gives the bytes  *)
(* of a name, and every decoding function works on those bytes.  Proof and *)
(* key material is kept as a sequence of 32-byte chunks, a chunk being 0   *)
(* when all its bytes are zero.  Account storage is taken to be large      *)
(* enough for the vectors it holds.                                        *)
(***************************************************************************)
EXTENDS Integers, Sequences, FiniteSets, TLC

(***************************************************************************)
(* constants.rs                                                            *)
(***************************************************************************)
MAX_MERKLE_DEPTH == 32
\* 256 in constants.rs:11, scaled down
MAX_ROOT_WINDOW == 2
CIRCUIT_SHIELD == 0
CIRCUIT_TRANSFER == 1
CIRCUIT_UNSHIELD == 2
SHIELD_PUBLIC_INPUTS == 1
TRANSFER_PUBLIC_INPUTS == 4
UNSHIELD_PUBLIC_INPUTS == 6
\* 100000 in constants.rs:45, scaled down
MAX_NULLIFIERS_PER_SHARD == 2

(***************************************************************************)
(* Bounds of the model                                                     *)
(***************************************************************************)
\* add_root calls made in one behaviour of Spec
MaxAppends == 2
\* add_root calls made in one behaviour of SpecRoots
MaxRootAppends == 4
\* lamports held by the treasury account when the pool is deployed
TreasuryFunding == 1000
\* conversions applied to one value in a behaviour of SpecCodec
MaxConversions == 2

Circuits == {CIRCUIT_SHIELD, CIRCUIT_TRANSFER, CIRCUIT_UNSHIELD}

(***************************************************************************)
(* Bytes                                                                   *)
(***************************************************************************)
Rep(b, n) == [i \in 1..n |-> b]

Pad32(prefix) == prefix \o Rep(0, 32 - Len(prefix))

\* [0u8; 32]
ZeroWord == Rep(0, 32)

\* The 32-byte values the requests are built from.
Words ==
  { "Z", "R1", "R2", "R3", "R4", "N1", "N2", "N3", "N4", "C1", "V100",
    "V101", "V256", "V1000", "VMax31", "VHuge", "LoA", "LoAx", "HiA", "HiAx",
    "Big", "Top2F", "TopFF" }

\* the bytes of every word, little-endian: index 1 is byte 0
WordTable ==
  [ w \in Words |->
      CASE w = "Z"     -> ZeroWord
        [] w = "R1"    -> Rep(1, 32)
        [] w = "R2"    -> Rep(2, 32)
        [] w = "R3"    -> Rep(3, 32)
        [] w = "R4"    -> Rep(4, 32)
        [] w = "N1"    -> Rep(33, 32)
        [] w = "N2"    -> Rep(34, 32)
        [] w = "N3"    -> Rep(35, 32)
        [] w = "N4"    -> Rep(36, 32)
        [] w = "C1"    -> Rep(12, 32)
        [] w = "V100"  -> Pad32(<<100>>)
        [] w = "V101"  -> Pad32(<<101>>)
        [] w = "V256"  -> Pad32(<<0, 1>>)
        [] w = "V1000" -> Pad32(<<232, 3>>)
        [] w = "VMax31" -> Pad32(<<255, 255, 255, 127>>)
        [] w = "VHuge" -> Pad32(<<0, 0, 0, 0, 0, 0, 0, 0, 1>>)
        [] w = "LoA"   -> Pad32(Rep(161, 16))
        [] w = "LoAx"  -> Pad32(Rep(161, 16) \o <<7>>)
        [] w = "HiA"   -> Pad32(Rep(162, 16))
        [] w = "HiAx"  -> Pad32(Rep(162, 16) \o <<0, 9>>)
        [] w = "Big"   -> Rep(0, 31) \o <<48>>
        [] w = "Top2F" -> Rep(255, 31) \o <<47>>
        [] w = "TopFF" -> Rep(0, 31) \o <<255>> ]

WordBytes(w) == WordTable[w]

\* Wallet accounts and their 32-byte addresses.
Wallets == {"acctA", "acctB"}

PubkeyTable ==
  [ a \in Wallets |->
      CASE a = "acctA" -> Rep(161, 16) \o Rep(162, 16)
        [] a = "acctB" -> Rep(177, 32) ]

\* a key lookup that answers with the address of acctA for every account
PubkeyOfFirstWallet(a) == PubkeyTable["acctA"]

\* ctx.accounts.recipient.key()
Pubkey(a) == PubkeyTable[a]

(***************************************************************************)
(* Key digest.  Sha256 is collision free on the keys of the model and      *)
(* never yields the all-zero hash.                                         *)
(***************************************************************************)
ZeroHash == <<0>>

Sha256(data) == <<1>> \o data

\* a hash that is the digest of no key of the model
BogusHash == <<2>>

\* length in bytes of a sequence of 32-byte chunks
ByteLen(chunks) == 32 * Len(chunks)

(***************************************************************************)
(* State                                                                   *)
(***************************************************************************)
VARIABLES
  exists,      \* the PDAs created by initialize exist
  config,      \* PoolConfig
  vk,          \* VerificationKeyAccount of each circuit
  roots,       \* RootsAccount
  nullifiers,  \* NullifiersAccount (shard 0)
  lamports,    \* balance of the treasury PDA and of the wallets
  events,      \* events published by the last transaction, in order
  last,        \* the last transaction: instruction and result kind
  appended,    \* history: the roots add_root has appended, oldest first
  spent_log,   \* history: nullifiers of successful transfers and unshields
  codec        \* the value the endianness adapter of verifier.rs is applied to

vars ==
  << exists, config, vk, roots, nullifiers, lamports, events, last,
     appended, spent_log, codec >>

\* the account contents a transaction can change
ledger == << exists, config, vk, roots, nullifiers, lamports >>

(***************************************************************************)
(* state.rs                                                                *)
(***************************************************************************)
\* VerificationKeyAccount::vk_data_len
vk_data_len(n_public) == 448 + (n_public + 1) * 64

\* contains_root as a raw scan of the whole slot array
contains_root_full_scan(self, root) ==
  \E i \in 1..Len(self.roots) : WordBytes(self.roots[i]) = WordBytes(root)

\* RootsAccount::contains_root
contains_root(self, root) ==
  \E i \in 1..Len(self.roots) :
    /\ i <= self.size
    /\ WordBytes(self.roots[i]) = WordBytes(root)

\* add_root with a cursor that does not wrap
add_root_no_wrap(self, root) ==
  LET idx == self.cursor
      written == IF idx < Len(self.roots)
                 THEN [self.roots EXCEPT ![idx + 1] = root]
                 ELSE self.roots
  IN [ roots    |-> written,
       cursor   |-> self.cursor + 1,
       size     |-> IF self.size < self.capacity THEN self.size + 1 ELSE self.size,
       capacity |-> self.capacity ]

\* add_root with a cursor that wraps one slot late
add_root_mod_plus_one(self, root) ==
  LET idx == self.cursor
      written == IF idx < Len(self.roots)
                 THEN [self.roots EXCEPT ![idx + 1] = root]
                 ELSE self.roots
  IN [ roots    |-> written,
       cursor   |-> (self.cursor + 1) % (self.capacity + 1),
       size     |-> IF self.size < self.capacity THEN self.size + 1 ELSE self.size,
       capacity |-> self.capacity ]

\* RootsAccount::add_root (idx is 0-based in the source, sequences 1-based)
RootsAccount_add_root(self, root) ==
  LET idx == self.cursor
      written == IF idx < Len(self.roots)
                 THEN [self.roots EXCEPT ![idx + 1] = root]
                 ELSE self.roots
  IN [ roots    |-> written,
       cursor   |-> (self.cursor + 1) % self.capacity,
       size     |-> IF self.size < self.capacity THEN self.size + 1 ELSE self.size,
       capacity |-> self.capacity ]

\* is_spent that finds nothing
is_spent_never(self, nullifier) == FALSE

\* NullifiersAccount::is_spent
is_spent(self, nullifier) ==
  \E i \in 1..Len(self.nullifiers) :
    WordBytes(self.nullifiers[i]) = WordBytes(nullifier)

\* mark_spent that reports the shard full one entry early
mark_spent_early_full(self, nullifier) ==
  IF \E i \in 1..Len(self.nullifiers) :
       WordBytes(self.nullifiers[i]) = WordBytes(nullifier)
  THEN [res |-> "NullifierSpent", acct |-> self]
  ELSE IF ~(Len(self.nullifiers) + 1 < MAX_NULLIFIERS_PER_SHARD)
  THEN [res |-> "NullifierCapacityExceeded", acct |-> self]
  ELSE [res |-> "Ok",
        acct |-> [self EXCEPT !.nullifiers = Append(self.nullifiers, nullifier)]]

\* mark_spent without its capacity limit
mark_spent_no_capacity(self, nullifier) ==
  IF \E i \in 1..Len(self.nullifiers) :
       WordBytes(self.nullifiers[i]) = WordBytes(nullifier)
  THEN [res |-> "NullifierSpent", acct |-> self]
  ELSE [res |-> "Ok",
        acct |-> [self EXCEPT !.nullifiers = Append(self.nullifiers, nullifier)]]

\* mark_spent that pushes the nullifier twice
mark_spent_twice(self, nullifier) ==
  IF \E i \in 1..Len(self.nullifiers) :
       WordBytes(self.nullifiers[i]) = WordBytes(nullifier)
  THEN [res |-> "NullifierSpent", acct |-> self]
  ELSE IF ~(Len(self.nullifiers) < MAX_NULLIFIERS_PER_SHARD)
  THEN [res |-> "NullifierCapacityExceeded", acct |-> self]
  ELSE [res |-> "Ok",
        acct |-> [self EXCEPT !.nullifiers = self.nullifiers \o <<nullifier, nullifier>>]]

\* NullifiersAccount::mark_spent: the result kind and the account after it
mark_spent(self, nullifier) ==
  IF is_spent(self, nullifier)
  THEN [res |-> "NullifierSpent", acct |-> self]
  ELSE IF ~(Len(self.nullifiers) < MAX_NULLIFIERS_PER_SHARD)
  THEN [res |-> "NullifierCapacityExceeded", acct |-> self]
  ELSE [res |-> "Ok",
        acct |-> [self EXCEPT !.nullifiers = Append(self.nullifiers, nullifier)]]

\* get_nullifier_shard
get_nullifier_shard(nullifier) == 0

(***************************************************************************)
(* Accounts before initialize has created them                             *)
(***************************************************************************)
NoConfig ==
  [ admin |-> "none", merkle_depth |-> 0, root_window |-> 0, abi_hash |-> "none",
    vk_hashes |-> [c \in Circuits |-> ZeroHash], paused |-> FALSE ]

NoVk == [c \in Circuits |-> [circuit |-> 0, n_public |-> 0, vk_data |-> <<>>, vk_hash |-> ZeroHash]]

NoRoots == [roots |-> <<>>, cursor |-> 0, size |-> 0, capacity |-> 0]

NoNullifiers == [shard |-> 0, nullifiers |-> <<>>]

\* no instruction calls the endianness adapter: nothing is being converted
NoCodec == [kind |-> "none", origin |-> <<>>, value |-> <<>>, steps |-> 0]

\* what a handler hands back: the result kind and the staged account contents
Staged(res, cfg, keys, rts, nulls, lams, evs) ==
  [ res |-> res, config |-> cfg, vk |-> keys, roots |-> rts, nullifiers |-> nulls,
    lamports |-> lams, events |-> evs ]

\* a handler that returns res before it has written to any account
Reject(res) == Staged(res, config, vk, roots, nullifiers, lamports, <<>>)

\* a ledger that keeps what a failed transaction has staged
CommitAlways(res, before, staged) == staged

\* A transaction is all-or-nothing: staged contents are kept only on Ok.
Commit(res, before, staged) == IF res = "Ok" THEN staged ELSE before

\* the step of the ledger that runs instruction op with outcome out
Apply(op, out) ==
  /\ config' = Commit(out.res, config, out.config)
  /\ vk' = Commit(out.res, vk, out.vk)
  /\ roots' = Commit(out.res, roots, out.roots)
  /\ nullifiers' = Commit(out.res, nullifiers, out.nullifiers)
  /\ lamports' = Commit(out.res, lamports, out.lamports)
  /\ events' = Commit(out.res, <<>>, out.events)
  /\ last' = [ op |-> op, res |-> out.res,
               inserted |-> out.nullifiers.nullifiers # nullifiers.nullifiers ]
  /\ UNCHANGED codec

(***************************************************************************)
(* instructions/initialize.rs                                              *)
(***************************************************************************)
n_public_of(circuit) ==
  CASE circuit = CIRCUIT_SHIELD   -> SHIELD_PUBLIC_INPUTS
    [] circuit = CIRCUIT_TRANSFER -> TRANSFER_PUBLIC_INPUTS
    [] circuit = CIRCUIT_UNSHIELD -> UNSHIELD_PUBLIC_INPUTS

\* initialize that creates the accounts over existing ones
initialize_again(signer, merkle_depth, root_window, abi_hash) ==
  IF ~(merkle_depth > 0 /\ merkle_depth <= MAX_MERKLE_DEPTH)
  THEN Reject("InvalidMerkleDepth")
  ELSE IF ~(root_window > 0 /\ root_window <= MAX_ROOT_WINDOW)
  THEN Reject("InvalidRootWindow")
  ELSE Staged("Ok",
         [ admin |-> signer, merkle_depth |-> merkle_depth,
           root_window |-> root_window, abi_hash |-> abi_hash,
           vk_hashes |-> [c \in Circuits |-> ZeroHash], paused |-> FALSE ],
         [ c \in Circuits |->
             [ circuit |-> c, n_public |-> n_public_of(c), vk_data |-> <<>>,
               vk_hash |-> ZeroHash ] ],
         [ roots |-> [i \in 1..root_window |-> "Z"], cursor |-> 0, size |-> 0,
           capacity |-> root_window ],
         [ shard |-> 0, nullifiers |-> <<>> ],
         lamports,
         << <<"Initialized", signer, merkle_depth, root_window>> >>)

\* initialize that validates the window before the depth
initialize_window_first(signer, merkle_depth, root_window, abi_hash) ==
  IF exists THEN Reject("AccountAlreadyInUse")
  ELSE IF ~(root_window > 0 /\ root_window <= MAX_ROOT_WINDOW)
  THEN Reject("InvalidRootWindow")
  ELSE IF ~(merkle_depth > 0 /\ merkle_depth <= MAX_MERKLE_DEPTH)
  THEN Reject("InvalidMerkleDepth")
  ELSE Staged("Ok",
         [ admin |-> signer, merkle_depth |-> merkle_depth,
           root_window |-> root_window, abi_hash |-> abi_hash,
           vk_hashes |-> [c \in Circuits |-> ZeroHash], paused |-> FALSE ],
         [ c \in Circuits |->
             [ circuit |-> c, n_public |-> n_public_of(c), vk_data |-> <<>>,
               vk_hash |-> ZeroHash ] ],
         [ roots |-> [i \in 1..root_window |-> "Z"], cursor |-> 0, size |-> 0,
           capacity |-> root_window ],
         [ shard |-> 0, nullifiers |-> <<>> ],
         lamports,
         << <<"Initialized", signer, merkle_depth, root_window>> >>)

initialize(signer, merkle_depth, root_window, abi_hash) ==
  IF exists THEN Reject("AccountAlreadyInUse")
  ELSE IF ~(merkle_depth > 0 /\ merkle_depth <= MAX_MERKLE_DEPTH)
  THEN Reject("InvalidMerkleDepth")
  ELSE IF ~(root_window > 0 /\ root_window <= MAX_ROOT_WINDOW)
  THEN Reject("InvalidRootWindow")
  ELSE Staged("Ok",
         [ admin |-> signer, merkle_depth |-> merkle_depth,
           root_window |-> root_window, abi_hash |-> abi_hash,
           vk_hashes |-> [c \in Circuits |-> ZeroHash], paused |-> FALSE ],
         [ c \in Circuits |->
             [ circuit |-> c, n_public |-> n_public_of(c), vk_data |-> <<>>,
               vk_hash |-> ZeroHash ] ],
         [ roots |-> [i \in 1..root_window |-> "Z"], cursor |-> 0, size |-> 0,
           capacity |-> root_window ],
         [ shard |-> 0, nullifiers |-> <<>> ],
         lamports,
         << <<"Initialized", signer, merkle_depth, root_window>> >>)

Initialize(signer, merkle_depth, root_window, abi_hash) ==
  LET out == initialize(signer, merkle_depth, root_window, abi_hash) IN
  /\ Apply("initialize", out)
  /\ exists' = (exists \/ out.res = "Ok")
  /\ UNCHANGED <<appended, spent_log>>

(***************************************************************************)
(* instructions/add_root.rs                                                *)
(***************************************************************************)
\* AddRoot accounts: authority signs; admin is an unchecked account that
\* the has_one constraint compares with config.admin
add_root(authority, admin, root) ==
  IF ~exists THEN Reject("AccountNotInitialized")
  ELSE IF config.admin # admin THEN Reject("Unauthorized")
  ELSE IF ~(roots.capacity > 0) THEN Reject("VkNotSet")
  ELSE LET index == roots.cursor IN
       Staged("Ok", config, vk, RootsAccount_add_root(roots, root), nullifiers, lamports,
              << <<"RootAdded", root, index>> >>)

AddRoot(authority, admin, root) ==
  LET out == add_root(authority, admin, root) IN
  /\ Apply("add_root", out)
  /\ appended' = IF out.res = "Ok" THEN Append(appended, root) ELSE appended
  /\ UNCHANGED <<exists, spent_log>>

(***************************************************************************)
(* instructions/set_paused.rs                                              *)
(***************************************************************************)
\* set_paused without the has_one constraint on config
set_paused_no_has_one(signer, admin, paused) ==
  IF ~exists THEN Reject("AccountNotInitialized")
  ELSE IF admin # signer THEN Reject("AccountNotSigner")
  ELSE Staged("Ok", [config EXCEPT !.paused = paused], vk, roots, nullifiers,
              lamports, << <<"PoolPausedChanged", paused, admin>> >>)

\* SetPaused accounts: admin must sign and equal config.admin
set_paused(signer, admin, paused) ==
  IF ~exists THEN Reject("AccountNotInitialized")
  ELSE IF admin # signer THEN Reject("AccountNotSigner")
  ELSE IF config.admin # admin THEN Reject("Unauthorized")
  ELSE Staged("Ok", [config EXCEPT !.paused = paused], vk, roots, nullifiers,
              lamports, << <<"PoolPausedChanged", paused, admin>> >>)

SetPaused(signer, admin, paused) ==
  /\ Apply("set_paused", set_paused(signer, admin, paused))
  /\ UNCHANGED <<exists, appended, spent_log>>

(***************************************************************************)
(* verifier.rs                                                             *)
(***************************************************************************)
\* parse_g1_point: x, y
parse_g1_point(bytes) == [x |-> bytes[1], y |-> bytes[2]]

\* parse_g2_point: x[0], x[1], y[0], y[1]
parse_g2_point(bytes) ==
  [x |-> <<bytes[1], bytes[2]>>, y |-> <<bytes[3], bytes[4]>>]

\* parse_proof, after its length check: A (64) + B (128) + C (64)
parse_proof(proof_bytes) ==
  [ a |-> parse_g1_point(SubSeq(proof_bytes, 1, 2)),
    b |-> parse_g2_point(SubSeq(proof_bytes, 3, 6)),
    c |-> parse_g1_point(SubSeq(proof_bytes, 7, 8)) ]

\* parse_verification_key, after its length check
parse_verification_key(vk_bytes, n_public) ==
  [ alpha_g1 |-> parse_g1_point(SubSeq(vk_bytes, 1, 2)),
    beta_g2  |-> parse_g2_point(SubSeq(vk_bytes, 3, 6)),
    gamma_g2 |-> parse_g2_point(SubSeq(vk_bytes, 7, 10)),
    delta_g2 |-> parse_g2_point(SubSeq(vk_bytes, 11, 14)),
    ic       |-> [k \in 1..(n_public + 1) |->
                    parse_g1_point(SubSeq(vk_bytes, 13 + 2 * k, 14 + 2 * k))] ]

is_zero_g1(point) == point.x = 0 /\ point.y = 0

\* a conversion that hands the bytes back in the order it got them
field_le_to_be_unchanged(le) == le

\* field_le_to_be on the 32 bytes of a field element: be[i] = le[31 - i]
\* (index 1 is byte 0)
field_le_to_be(le) == [i \in 1..32 |-> le[32 - (i - 1)]]

\* g1_le_to_be on a point whose coordinates are 32 bytes each
g1_le_to_be(le) == [x |-> field_le_to_be(le.x), y |-> field_le_to_be(le.y)]

is_zero_g2(point) ==
  point.x[1] = 0 /\ point.x[2] = 0 /\ point.y[1] = 0 /\ point.y[2] = 0

validate_proof_structure(proof) ==
  IF is_zero_g1(proof.a) THEN "InvalidProofData"
  ELSE IF is_zero_g2(proof.b) THEN "InvalidProofData"
  ELSE IF is_zero_g1(proof.c) THEN "InvalidProofData"
  ELSE "Ok"

validate_vk_structure(key) ==
  IF is_zero_g1(key.alpha_g1) THEN "InvalidVkData"
  ELSE IF Len(key.ic) = 0 THEN "InvalidVkData"
  ELSE "Ok"

\* a range check that looks at the first input only
validate_public_inputs_first_only(inputs) ==
  IF Len(inputs) > 0 /\ ~(WordBytes(inputs[1])[32] < 48)
  THEN "FieldOutOfRange"
  ELSE "Ok"

\* input[31] < 0x30 for every input
validate_public_inputs(inputs) ==
  IF \E i \in 1..Len(inputs) : ~(WordBytes(inputs[i])[32] < 48)
  THEN "FieldOutOfRange"
  ELSE "Ok"

\* verify_groth16 that looks at the public inputs before the structure
verify_groth16_inputs_first(proof, key, public_inputs) ==
  IF validate_public_inputs(public_inputs) # "Ok" THEN "FieldOutOfRange"
  ELSE IF validate_proof_structure(proof) # "Ok" THEN validate_proof_structure(proof)
  ELSE validate_vk_structure(key)

\* verify_groth16: structure only, the pairing equation is not evaluated
verify_groth16(proof, key, public_inputs) ==
  IF validate_proof_structure(proof) # "Ok" THEN validate_proof_structure(proof)
  ELSE IF validate_vk_structure(key) # "Ok" THEN validate_vk_structure(key)
  ELSE validate_public_inputs(public_inputs)

verify_proof(vk_account, proof_bytes, public_inputs) ==
  IF Len(public_inputs) # vk_account.n_public THEN "InvalidPublicInputCount"
  ELSE IF ByteLen(proof_bytes) # 256 THEN "InvalidProofData"
  ELSE IF ByteLen(vk_account.vk_data) # vk_data_len(vk_account.n_public)
  THEN "InvalidVkData"
  ELSE LET key == parse_verification_key(vk_account.vk_data, vk_account.n_public) IN
       IF Len(key.ic) # vk_account.n_public + 1 THEN "InvalidVkData"
       ELSE verify_groth16(parse_proof(proof_bytes), key, public_inputs)

(***************************************************************************)
(* The external pairing evaluator (spec 4.5 (f), 6).  A proof chunk 1      *)
(* stands for the bytes an honest prover computed for the key and the      *)
(* public inputs of the request; any other chunk for bytes it did not.     *)
(***************************************************************************)
PairingIdentityHolds(proof_bytes, vk_account, public_inputs) ==
  /\ Len(proof_bytes) = 8
  /\ \A i \in 1..8 : proof_bytes[i] = 1

(***************************************************************************)
(* instructions/set_verification_key.rs                                    *)
(***************************************************************************)
\* set_verification_key that stores the key without comparing the digest
set_verification_key_unhashed(signer, admin, circuit, vk_data, vk_hash) ==
  IF ~exists THEN Reject("AccountNotInitialized")
  ELSE IF circuit \notin Circuits THEN Reject("AccountNotInitialized")
  ELSE IF admin # signer THEN Reject("AccountNotSigner")
  ELSE IF config.admin # admin THEN Reject("Unauthorized")
  ELSE IF ByteLen(vk_data) # vk_data_len(n_public_of(circuit))
  THEN Reject("InvalidVkData")
  ELSE Staged("Ok", [config EXCEPT !.vk_hashes[circuit] = vk_hash],
              [vk EXCEPT ![circuit] =
                 [ circuit |-> circuit, n_public |-> n_public_of(circuit),
                   vk_data |-> vk_data, vk_hash |-> vk_hash ]],
              roots, nullifiers, lamports,
              << <<"VerificationKeySet", circuit, vk_hash>> >>)

\* set_verification_key that writes the key slot and leaves the config alone
set_verification_key_slot_only(signer, admin, circuit, vk_data, vk_hash) ==
  IF ~exists THEN Reject("AccountNotInitialized")
  ELSE IF circuit \notin Circuits THEN Reject("AccountNotInitialized")
  ELSE IF admin # signer THEN Reject("AccountNotSigner")
  ELSE IF config.admin # admin THEN Reject("Unauthorized")
  ELSE IF ByteLen(vk_data) # vk_data_len(n_public_of(circuit))
  THEN Reject("InvalidVkData")
  ELSE IF Sha256(vk_data) # vk_hash THEN Reject("VkHashMismatch")
  ELSE Staged("Ok", config,
              [vk EXCEPT ![circuit] =
                 [ circuit |-> circuit, n_public |-> n_public_of(circuit),
                   vk_data |-> vk_data, vk_hash |-> vk_hash ]],
              roots, nullifiers, lamports,
              << <<"VerificationKeySet", circuit, vk_hash>> >>)

set_verification_key(signer, admin, circuit, vk_data, vk_hash) ==
  IF ~exists THEN Reject("AccountNotInitialized")
  ELSE IF circuit \notin Circuits THEN Reject("AccountNotInitialized")
  ELSE IF admin # signer THEN Reject("AccountNotSigner")
  ELSE IF config.admin # admin THEN Reject("Unauthorized")
  ELSE IF ~(circuit <= CIRCUIT_UNSHIELD) THEN Reject("InvalidCircuitType")
  ELSE LET n_public == n_public_of(circuit) IN
    IF ByteLen(vk_data) # vk_data_len(n_public) THEN Reject("InvalidVkData")
    ELSE IF Sha256(vk_data) # vk_hash THEN Reject("VkHashMismatch")
    ELSE LET stored == [ circuit |-> circuit, n_public |-> n_public,
                         vk_data |-> vk_data, vk_hash |-> vk_hash ]
             keys == [vk EXCEPT ![circuit] = stored]
         IN IF stored.n_public # n_public_of(stored.circuit)
            THEN Staged("InvalidPublicInputCount", config, keys, roots,
                        nullifiers, lamports, <<>>)
            ELSE Staged("Ok", [config EXCEPT !.vk_hashes[circuit] = vk_hash],
                        keys, roots, nullifiers, lamports,
                        << <<"VerificationKeySet", circuit, vk_hash>> >>)

SetVerificationKey(signer, admin, circuit, vk_data, vk_hash) ==
  /\ Apply("set_verification_key",
           set_verification_key(signer, admin, circuit, vk_data, vk_hash))
  /\ UNCHANGED <<exists, appended, spent_log>>

(***************************************************************************)
(* instructions/submit_shield.rs                                           *)
(***************************************************************************)
\* submit_shield without its pause check
submit_shield_no_pause_gate(proof, public_inputs) ==
  IF ~exists THEN Reject("AccountNotInitialized")
  ELSE IF Len(public_inputs) # SHIELD_PUBLIC_INPUTS
  THEN Reject("InvalidPublicInputCount")
  ELSE IF vk[CIRCUIT_SHIELD].vk_hash # config.vk_hashes[CIRCUIT_SHIELD]
  THEN Reject("VkHashMismatch")
  ELSE IF config.vk_hashes[CIRCUIT_SHIELD] = ZeroHash THEN Reject("VkNotSet")
  ELSE IF verify_proof(vk[CIRCUIT_SHIELD], proof, public_inputs) # "Ok"
  THEN Reject(verify_proof(vk[CIRCUIT_SHIELD], proof, public_inputs))
  ELSE Staged("Ok", config, vk, roots, nullifiers, lamports,
              << <<"NewCommitment", public_inputs[1], CIRCUIT_SHIELD>> >>)

\* submit_shield without its check that the key is set
submit_shield_no_key_gate(proof, public_inputs) ==
  IF ~exists THEN Reject("AccountNotInitialized")
  ELSE IF config.paused THEN Reject("PoolPaused")
  ELSE IF Len(public_inputs) # SHIELD_PUBLIC_INPUTS
  THEN Reject("InvalidPublicInputCount")
  ELSE IF vk[CIRCUIT_SHIELD].vk_hash # config.vk_hashes[CIRCUIT_SHIELD]
  THEN Reject("VkHashMismatch")
  ELSE IF verify_proof(vk[CIRCUIT_SHIELD], proof, public_inputs) # "Ok"
  THEN Reject(verify_proof(vk[CIRCUIT_SHIELD], proof, public_inputs))
  ELSE Staged("Ok", config, vk, roots, nullifiers, lamports,
              << <<"NewCommitment", public_inputs[1], CIRCUIT_SHIELD>> >>)

\* submit_shield that accepts without publishing the commitment
submit_shield_no_event(proof, public_inputs) ==
  IF ~exists THEN Reject("AccountNotInitialized")
  ELSE IF config.paused THEN Reject("PoolPaused")
  ELSE IF Len(public_inputs) # SHIELD_PUBLIC_INPUTS
  THEN Reject("InvalidPublicInputCount")
  ELSE IF vk[CIRCUIT_SHIELD].vk_hash # config.vk_hashes[CIRCUIT_SHIELD]
  THEN Reject("VkHashMismatch")
  ELSE IF config.vk_hashes[CIRCUIT_SHIELD] = ZeroHash THEN Reject("VkNotSet")
  ELSE IF verify_proof(vk[CIRCUIT_SHIELD], proof, public_inputs) # "Ok"
  THEN Reject(verify_proof(vk[CIRCUIT_SHIELD], proof, public_inputs))
  ELSE Staged("Ok", config, vk, roots, nullifiers, lamports, <<>>)

submit_shield(proof, public_inputs) ==
  IF ~exists THEN Reject("AccountNotInitialized")
  ELSE IF config.paused THEN Reject("PoolPaused")
  ELSE IF Len(public_inputs) # SHIELD_PUBLIC_INPUTS
  THEN Reject("InvalidPublicInputCount")
  ELSE IF vk[CIRCUIT_SHIELD].vk_hash # config.vk_hashes[CIRCUIT_SHIELD]
  THEN Reject("VkHashMismatch")
  ELSE IF config.vk_hashes[CIRCUIT_SHIELD] = ZeroHash THEN Reject("VkNotSet")
  ELSE IF verify_proof(vk[CIRCUIT_SHIELD], proof, public_inputs) # "Ok"
  THEN Reject(verify_proof(vk[CIRCUIT_SHIELD], proof, public_inputs))
  ELSE LET commitment == public_inputs[1] IN
       Staged("Ok", config, vk, roots, nullifiers, lamports,
              << <<"NewCommitment", commitment, CIRCUIT_SHIELD>> >>)

SubmitShield(proof, public_inputs) ==
  /\ Apply("submit_shield", submit_shield(proof, public_inputs))
  /\ UNCHANGED <<exists, appended, spent_log>>

(***************************************************************************)
(* instructions/submit_transfer.rs                                         *)
(***************************************************************************)
\* shard initialization that is taken whatever the vector holds
lazy_init_always(acct, nullifier) ==
  [shard |-> get_nullifier_shard(nullifier), nullifiers |-> <<>>]

\* "Initialize nullifiers account if needed": taken when the vector is empty
lazy_init(acct, nullifier) ==
  IF Len(acct.nullifiers) = 0
  THEN [shard |-> get_nullifier_shard(nullifier), nullifiers |-> <<>>]
  ELSE acct

\* submit_transfer that publishes NewCommitment before NullifierSpent
submit_transfer_commitment_first(proof, public_inputs) ==
  IF ~exists THEN Reject("AccountNotInitialized")
  ELSE IF config.paused THEN Reject("PoolPaused")
  ELSE IF Len(public_inputs) # TRANSFER_PUBLIC_INPUTS
  THEN Reject("InvalidPublicInputCount")
  ELSE IF vk[CIRCUIT_TRANSFER].vk_hash # config.vk_hashes[CIRCUIT_TRANSFER]
  THEN Reject("VkHashMismatch")
  ELSE IF config.vk_hashes[CIRCUIT_TRANSFER] = ZeroHash THEN Reject("VkNotSet")
  ELSE LET root == public_inputs[1]
           nullifier == public_inputs[2]
           new_commitment == public_inputs[3]
           acct == lazy_init(nullifiers, nullifier)
           fail(res) == Staged(res, config, vk, roots, acct, lamports, <<>>)
       IN
    IF ~contains_root(roots, root) THEN Reject("RootNotFound")
    ELSE IF is_spent(acct, nullifier) THEN fail("NullifierSpent")
    ELSE IF verify_proof(vk[CIRCUIT_TRANSFER], proof, public_inputs) # "Ok"
    THEN fail(verify_proof(vk[CIRCUIT_TRANSFER], proof, public_inputs))
    ELSE LET marked == mark_spent(acct, nullifier) IN
      IF marked.res # "Ok" THEN fail(marked.res)
      ELSE Staged("Ok", config, vk, roots, marked.acct, lamports,
                  << <<"NewCommitment", new_commitment, CIRCUIT_TRANSFER>>,
                     <<"NullifierSpent", nullifier, CIRCUIT_TRANSFER>> >>)

\* submit_transfer that counts the public inputs after it has looked at the key
submit_transfer_count_after_key(proof, public_inputs) ==
  IF ~exists THEN Reject("AccountNotInitialized")
  ELSE IF config.paused THEN Reject("PoolPaused")
  ELSE IF vk[CIRCUIT_TRANSFER].vk_hash # config.vk_hashes[CIRCUIT_TRANSFER]
  THEN Reject("VkHashMismatch")
  ELSE IF config.vk_hashes[CIRCUIT_TRANSFER] = ZeroHash THEN Reject("VkNotSet")
  ELSE IF Len(public_inputs) # TRANSFER_PUBLIC_INPUTS
  THEN Reject("InvalidPublicInputCount")
  ELSE LET root == public_inputs[1]
           nullifier == public_inputs[2]
           new_commitment == public_inputs[3]
           acct == lazy_init(nullifiers, nullifier)
           fail(res) == Staged(res, config, vk, roots, acct, lamports, <<>>)
       IN
    IF ~contains_root(roots, root) THEN Reject("RootNotFound")
    ELSE IF is_spent(acct, nullifier) THEN fail("NullifierSpent")
    ELSE IF verify_proof(vk[CIRCUIT_TRANSFER], proof, public_inputs) # "Ok"
    THEN fail(verify_proof(vk[CIRCUIT_TRANSFER], proof, public_inputs))
    ELSE LET marked == mark_spent(acct, nullifier) IN
      IF marked.res # "Ok" THEN fail(marked.res)
      ELSE Staged("Ok", config, vk, roots, marked.acct, lamports,
                  << <<"NullifierSpent", nullifier, CIRCUIT_TRANSFER>>,
                     <<"NewCommitment", new_commitment, CIRCUIT_TRANSFER>> >>)

submit_transfer(proof, public_inputs) ==
  IF ~exists THEN Reject("AccountNotInitialized")
  ELSE IF config.paused THEN Reject("PoolPaused")
  ELSE IF Len(public_inputs) # TRANSFER_PUBLIC_INPUTS
  THEN Reject("InvalidPublicInputCount")
  ELSE IF vk[CIRCUIT_TRANSFER].vk_hash # config.vk_hashes[CIRCUIT_TRANSFER]
  THEN Reject("VkHashMismatch")
  ELSE IF config.vk_hashes[CIRCUIT_TRANSFER] = ZeroHash THEN Reject("VkNotSet")
  ELSE LET root == public_inputs[1]
           nullifier == public_inputs[2]
           new_commitment == public_inputs[3]
           acct == lazy_init(nullifiers, nullifier)
           fail(res) == Staged(res, config, vk, roots, acct, lamports, <<>>)
       IN
    IF ~contains_root(roots, root) THEN Reject("RootNotFound")
    ELSE IF is_spent(acct, nullifier) THEN fail("NullifierSpent")
    ELSE IF verify_proof(vk[CIRCUIT_TRANSFER], proof, public_inputs) # "Ok"
    THEN fail(verify_proof(vk[CIRCUIT_TRANSFER], proof, public_inputs))
    ELSE LET marked == mark_spent(acct, nullifier) IN
      IF marked.res # "Ok" THEN fail(marked.res)
      ELSE Staged("Ok", config, vk, roots, marked.acct, lamports,
                  << <<"NullifierSpent", nullifier, CIRCUIT_TRANSFER>>,
                     <<"NewCommitment", new_commitment, CIRCUIT_TRANSFER>> >>)

\* the nullifier a transfer or unshield request carries, when it carries one
nullifier_of(public_inputs) == public_inputs[2]

SubmitTransfer(proof, public_inputs) ==
  LET out == submit_transfer(proof, public_inputs) IN
  /\ Apply("submit_transfer", out)
  /\ spent_log' = IF out.res = "Ok"
                  THEN Append(spent_log, nullifier_of(public_inputs))
                  ELSE spent_log
  /\ UNCHANGED <<exists, appended>>

(***************************************************************************)
(* instructions/submit_unshield.rs                                         *)
(***************************************************************************)
\* reconstruct_recipient: lo[..16] followed by hi[..16]; never fails
reconstruct_recipient(lo, hi) ==
  SubSeq(WordBytes(lo), 1, 16) \o SubSeq(WordBytes(hi), 1, 16)

\* validate_recipient_roundtrip
validate_recipient_roundtrip(pubkey, lo, hi) ==
  IF reconstruct_recipient(lo, hi) # pubkey THEN "InvalidRecipient"
  ELSE IF \E i \in 17..32 : WordBytes(lo)[i] # 0 THEN "InvalidEncoding"
  ELSE IF \E i \in 17..32 : WordBytes(hi)[i] # 0 THEN "InvalidEncoding"
  ELSE "Ok"

\* u64::from_le_bytes
RECURSIVE from_le_bytes(_)
from_le_bytes(bytes) ==
  IF Len(bytes) = 0 THEN 0 ELSE Head(bytes) + 256 * from_le_bytes(Tail(bytes))

\* field_to_u64 that reads one byte of the eight
field_to_u64_low_byte(field) ==
  IF \E i \in 9..32 : WordBytes(field)[i] # 0
  THEN [res |-> "AmountTooLarge", value |-> 0]
  ELSE [res |-> "Ok", value |-> WordBytes(field)[1]]

\* field_to_u64: the result kind and the decoded value
field_to_u64(field) ==
  IF \E i \in 9..32 : WordBytes(field)[i] # 0
  THEN [res |-> "AmountTooLarge", value |-> 0]
  ELSE [res |-> "Ok", value |-> from_le_bytes(SubSeq(WordBytes(field), 1, 8))]

\* a transfer that credits the destination and leaves the source as it was
system_transfer_no_debit(lams, from, to, amount) ==
  IF lams[from] < amount
  THEN [res |-> "InsufficientFunds", lamports |-> lams]
  ELSE [res |-> "Ok", lamports |-> [lams EXCEPT ![to] = @ + amount]]

\* anchor_lang::system_program::transfer by CPI, treasury PDA as signer
system_transfer(lams, from, to, amount) ==
  IF lams[from] < amount
  THEN [res |-> "InsufficientFunds", lamports |-> lams]
  ELSE [res |-> "Ok",
        lamports |-> [lams EXCEPT ![from] = @ - amount, ![to] = @ + amount]]

\* submit_unshield without its comparison of the fee with the amount
submit_unshield_no_fee_check(proof, public_inputs, recipient) ==
  IF ~exists THEN Reject("AccountNotInitialized")
  ELSE IF config.paused THEN Reject("PoolPaused")
  ELSE IF Len(public_inputs) # UNSHIELD_PUBLIC_INPUTS
  THEN Reject("InvalidPublicInputCount")
  ELSE IF vk[CIRCUIT_UNSHIELD].vk_hash # config.vk_hashes[CIRCUIT_UNSHIELD]
  THEN Reject("VkHashMismatch")
  ELSE IF config.vk_hashes[CIRCUIT_UNSHIELD] = ZeroHash THEN Reject("VkNotSet")
  ELSE LET root == public_inputs[1]
           nullifier == public_inputs[2]
           recipient_lo == public_inputs[3]
           recipient_hi == public_inputs[4]
           public_amount == public_inputs[5]
           fee == public_inputs[6]
           recipient_pubkey == reconstruct_recipient(recipient_lo, recipient_hi)
           roundtrip ==
             validate_recipient_roundtrip(recipient_pubkey, recipient_lo, recipient_hi)
           acct == lazy_init(nullifiers, nullifier)
           proved == verify_proof(vk[CIRCUIT_UNSHIELD], proof, public_inputs)
           marked == mark_spent(acct, nullifier)
           amount == field_to_u64(public_amount)
           fee_amount == field_to_u64(fee)
           \* a return before and after mark_spent has pushed the nullifier
           fail(res) == Staged(res, config, vk, roots, acct, lamports, <<>>)
           failMarked(res) ==
             Staged(res, config, vk, roots, marked.acct, lamports, <<>>)
       IN
    IF recipient_pubkey # Pubkey(recipient) THEN Reject("InvalidRecipient")
    ELSE IF roundtrip # "Ok" THEN Reject(roundtrip)
    ELSE IF ~contains_root(roots, root) THEN Reject("RootNotFound")
    ELSE IF is_spent(acct, nullifier) THEN fail("NullifierSpent")
    ELSE IF proved # "Ok" THEN fail(proved)
    ELSE IF marked.res # "Ok" THEN fail(marked.res)
    ELSE IF amount.res # "Ok" THEN failMarked(amount.res)
    ELSE IF fee_amount.res # "Ok" THEN failMarked(fee_amount.res)
    ELSE IF amount.value - fee_amount.value < 0 THEN failMarked("ArithmeticOverflow")
    ELSE LET transfer_amount == amount.value - fee_amount.value
             moved == IF transfer_amount > 0
                      THEN system_transfer(lamports, "treasury", recipient,
                                           transfer_amount)
                      ELSE [res |-> "Ok", lamports |-> lamports]
         IN
      IF moved.res # "Ok" THEN failMarked(moved.res)
      ELSE Staged("Ok", config, vk, roots, marked.acct, moved.lamports,
                  << <<"NullifierSpent", nullifier, CIRCUIT_UNSHIELD>>,
                     <<"Unshielded", recipient, amount.value, fee_amount.value,
                       nullifier>> >>)

submit_unshield(proof, public_inputs, recipient) ==
  IF ~exists THEN Reject("AccountNotInitialized")
  ELSE IF config.paused THEN Reject("PoolPaused")
  ELSE IF Len(public_inputs) # UNSHIELD_PUBLIC_INPUTS
  THEN Reject("InvalidPublicInputCount")
  ELSE IF vk[CIRCUIT_UNSHIELD].vk_hash # config.vk_hashes[CIRCUIT_UNSHIELD]
  THEN Reject("VkHashMismatch")
  ELSE IF config.vk_hashes[CIRCUIT_UNSHIELD] = ZeroHash THEN Reject("VkNotSet")
  ELSE LET root == public_inputs[1]
           nullifier == public_inputs[2]
           recipient_lo == public_inputs[3]
           recipient_hi == public_inputs[4]
           public_amount == public_inputs[5]
           fee == public_inputs[6]
           recipient_pubkey == reconstruct_recipient(recipient_lo, recipient_hi)
           roundtrip ==
             validate_recipient_roundtrip(recipient_pubkey, recipient_lo, recipient_hi)
           acct == lazy_init(nullifiers, nullifier)
           proved == verify_proof(vk[CIRCUIT_UNSHIELD], proof, public_inputs)
           marked == mark_spent(acct, nullifier)
           amount == field_to_u64(public_amount)
           fee_amount == field_to_u64(fee)
           \* a return before and after mark_spent has pushed the nullifier
           fail(res) == Staged(res, config, vk, roots, acct, lamports, <<>>)
           failMarked(res) ==
             Staged(res, config, vk, roots, marked.acct, lamports, <<>>)
       IN
    IF recipient_pubkey # Pubkey(recipient) THEN Reject("InvalidRecipient")
    ELSE IF roundtrip # "Ok" THEN Reject(roundtrip)
    ELSE IF ~contains_root(roots, root) THEN Reject("RootNotFound")
    ELSE IF is_spent(acct, nullifier) THEN fail("NullifierSpent")
    ELSE IF proved # "Ok" THEN fail(proved)
    ELSE IF marked.res # "Ok" THEN fail(marked.res)
    ELSE IF amount.res # "Ok" THEN failMarked(amount.res)
    ELSE IF fee_amount.res # "Ok" THEN failMarked(fee_amount.res)
    ELSE IF ~(fee_amount.value <= amount.value) THEN failMarked("FeeExceedsAmount")
    ELSE IF amount.value - fee_amount.value < 0 THEN failMarked("ArithmeticOverflow")
    ELSE LET transfer_amount == amount.value - fee_amount.value
             moved == IF transfer_amount > 0
                      THEN system_transfer(lamports, "treasury", recipient,
                                           transfer_amount)
                      ELSE [res |-> "Ok", lamports |-> lamports]
         IN
      IF moved.res # "Ok" THEN failMarked(moved.res)
      ELSE Staged("Ok", config, vk, roots, marked.acct, moved.lamports,
                  << <<"NullifierSpent", nullifier, CIRCUIT_UNSHIELD>>,
                     <<"Unshielded", recipient, amount.value, fee_amount.value,
                       nullifier>> >>)

SubmitUnshield(proof, public_inputs, recipient) ==
  LET out == submit_unshield(proof, public_inputs, recipient) IN
  /\ Apply("submit_unshield", out)
  /\ spent_log' = IF out.res = "Ok"
                  THEN Append(spent_log, nullifier_of(public_inputs))
                  ELSE spent_log
  /\ UNCHANGED <<exists, appended>>

(***************************************************************************)
(* Requests                                                                *)
(***************************************************************************)
\* proofs: of an honest prover, forged, with a zero point A, one chunk short
SoundProof == Rep(1, 8)

ForgedProof == Rep(2, 8)

ZeroAProof == <<0, 0>> \o Rep(1, 6)

ShortProof == Rep(1, 7)

\* keys for n public inputs: well formed, with a zero alpha, one point short
GoodKey(n) == Rep(1, 14 + 2 * (n + 1))

ZeroAlphaKey(n) == <<0, 0>> \o Rep(1, 12 + 2 * (n + 1))

ShortKey(n) == Rep(1, 14 + 2 * n)

\* a key of the right length whose chunks from..to are all-zero
KeyWithZeroAt(n, from, to) ==
  [i \in 1..(14 + 2 * (n + 1)) |-> IF from <= i /\ i <= to THEN 0 ELSE 1]

KeyRequests ==
  { [circuit |-> c, vk_data |-> GoodKey(n_public_of(c)),
     vk_hash |-> Sha256(GoodKey(n_public_of(c)))] : c \in Circuits }
  \cup
  { [circuit |-> CIRCUIT_TRANSFER, vk_data |-> ZeroAlphaKey(TRANSFER_PUBLIC_INPUTS),
     vk_hash |-> Sha256(ZeroAlphaKey(TRANSFER_PUBLIC_INPUTS))],
    [circuit |-> CIRCUIT_TRANSFER, vk_data |-> GoodKey(TRANSFER_PUBLIC_INPUTS),
     vk_hash |-> BogusHash],
    [circuit |-> CIRCUIT_TRANSFER, vk_data |-> ShortKey(TRANSFER_PUBLIC_INPUTS),
     vk_hash |-> Sha256(ShortKey(TRANSFER_PUBLIC_INPUTS))],
    [circuit |-> CIRCUIT_TRANSFER, vk_data |-> ShortKey(TRANSFER_PUBLIC_INPUTS),
     vk_hash |-> BogusHash],
    [circuit |-> 3, vk_data |-> GoodKey(1), vk_hash |-> Sha256(GoodKey(1))] }

ShieldRequests ==
  { [proof |-> p, inputs |-> <<"C1">>] : p \in {SoundProof, ForgedProof, ZeroAProof} }
  \cup
  { [proof |-> SoundProof, inputs |-> i] : i \in {<<"Big">>, <<>>, <<"C1", "C1">>} }

SubmitRoots == {"Z", "R1", "R2"}

SubmitNullifiers == {"N1", "N2"}

TransferRequests ==
  { [proof |-> SoundProof, inputs |-> <<r, n, "C1", "V100">>] :
      r \in SubmitRoots, n \in SubmitNullifiers }
  \cup
  { [proof |-> p, inputs |-> <<"R1", "N1", "C1", "V100">>] :
      p \in {ForgedProof, ZeroAProof, ShortProof} }
  \cup
  { [proof |-> SoundProof, inputs |-> i] :
      i \in { <<"R1", "Big", "C1", "V100">>, <<"R1", "N1", "Big", "V100">>,
              <<"R1", "N1", "C1", "Big">>, <<"R1", "N1", "C1">>,
              <<"R1", "N1", "C1", "V100", "V100">> } }

AmountsAndFees == { <<"V1000", "V100">>, <<"V100", "V101">>, <<"V100", "V100">> }

UnshieldRequests ==
  { [proof |-> SoundProof, inputs |-> <<r, n, "LoA", "HiA", af[1], af[2]>>,
     recipient |-> "acctA"] :
      r \in SubmitRoots, n \in SubmitNullifiers, af \in AmountsAndFees }
  \cup
  { [proof |-> p, inputs |-> <<"R1", "N1", "LoA", "HiA", "V1000", "V100">>,
     recipient |-> "acctA"] : p \in {ForgedProof, ZeroAProof} }
  \cup
  { [proof |-> SoundProof, inputs |-> i, recipient |-> "acctA"] :
      i \in { <<"R1", "N1", "LoAx", "HiA", "V1000", "V100">>,
              <<"R1", "N1", "LoA", "HiAx", "V1000", "V100">>,
              <<"R1", "N1", "LoA", "HiA", "VHuge", "V100">>,
              <<"R1", "N1", "LoA", "HiA", "V1000", "VHuge">>,
              <<"R1", "N1", "LoA", "HiA", "V100", "V256">>,
              <<"R1", "Big", "LoA", "HiA", "V1000", "V100">>,
              <<"R1", "N1", "LoA", "HiA", "Big", "V100">>,
              <<"R1", "N1", "LoA", "HiA", "V1000", "Big">>,
              <<"R1", "N1", "LoA", "HiA", "V1000">>,
              <<"R1", "N1", "LoA", "HiA", "V1000", "V100", "V100">> } }
  \cup
  { [proof |-> SoundProof, inputs |-> <<"R1", "N1", lo, "HiA", "V1000", "V100">>,
     recipient |-> "acctB"] : lo \in {"LoA", "LoAx"} }

(***************************************************************************)
(* Specification                                                           *)
(***************************************************************************)
\* initialize arguments <<merkle_depth, root_window>>: every window size
\* with a valid depth, the depths just outside 1..MAX_MERKLE_DEPTH, and both
\* arguments out of range
InitializeRequests ==
  { <<20, w>> : w \in 0..(MAX_ROOT_WINDOW + 1) }
  \cup { <<0, 1>>, <<MAX_MERKLE_DEPTH + 1, 1>>, <<0, 0>>,
         <<MAX_MERKLE_DEPTH + 1, MAX_ROOT_WINDOW + 1>> }

\* who signs an admin instruction and which account is passed as admin
AdminCalls ==
  { [signer |-> "admin", admin |-> "admin"],
    [signer |-> "mallory", admin |-> "mallory"],
    [signer |-> "mallory", admin |-> "admin"] }

RootWords == {"R1", "R2"}

\* The roots are interchangeable, so Spec appends them in one order: R1,
\* R2, R1, ...  SpecRoots appends every sequence, repeated roots included.
NextRoot == IF Len(appended) % 2 = 0 THEN "R1" ELSE "R2"

Init ==
  /\ exists = FALSE
  /\ config = NoConfig
  /\ vk = NoVk
  /\ roots = NoRoots
  /\ nullifiers = NoNullifiers
  /\ lamports = [a \in Wallets \cup {"treasury"} |->
                   IF a = "treasury" THEN TreasuryFunding ELSE 0]
  /\ events = <<>>
  /\ last = [op |-> "none", res |-> "none", inserted |-> FALSE]
  /\ appended = <<>>
  /\ spent_log = <<>>
  /\ codec = NoCodec

Next ==
  \/ \E i \in InitializeRequests : Initialize("admin", i[1], i[2], "abi")
  \/ /\ Len(appended) < MaxAppends
     /\ \E c \in AdminCalls : AddRoot(c.signer, c.admin, NextRoot)
  \/ \E c \in AdminCalls, p \in BOOLEAN : SetPaused(c.signer, c.admin, p)
  \/ \E c \in AdminCalls, k \in KeyRequests :
       SetVerificationKey(c.signer, c.admin, k.circuit, k.vk_data, k.vk_hash)
  \/ \E q \in ShieldRequests : SubmitShield(q.proof, q.inputs)
  \/ \E q \in TransferRequests : SubmitTransfer(q.proof, q.inputs)
  \/ \E q \in UnshieldRequests : SubmitUnshield(q.proof, q.inputs, q.recipient)

Spec == Init /\ [][Next]_vars

\* The root window on its own: initialize and add_root with more roots and
\* more appends than Spec makes.
WindowRoots == {"Z", "R1", "R2", "R3", "R4"}

NextRoots ==
  \/ \E i \in InitializeRequests : Initialize("admin", i[1], i[2], "abi")
  \/ /\ Len(appended) < MaxRootAppends
     /\ \E c \in AdminCalls, r \in WindowRoots : AddRoot(c.signer, c.admin, r)

SpecRoots == Init /\ [][NextRoots]_vars

\* The nullifier shard on its own: a pool with one root, the transfer and
\* unshield keys, and submissions over more nullifiers than the shard holds.
WideNullifiers == {"N1", "N2", "N3", "N4"}

WideTransferRequests ==
  { [proof |-> SoundProof, inputs |-> <<"R1", n, "C1", "V100">>] :
      n \in WideNullifiers }
  \cup { [proof |-> ZeroAProof, inputs |-> <<"R1", "N4", "C1", "V100">>] }

WideUnshieldRequests ==
  { [proof |-> SoundProof, inputs |-> <<"R1", n, "LoA", "HiA", "V100", "V100">>,
     recipient |-> "acctA"] : n \in WideNullifiers }
  \cup
  { [proof |-> SoundProof, inputs |-> <<"R1", "N1", "LoA", "HiA", a, "V100">>,
     recipient |-> "acctA"] : a \in {"V1000", "VHuge"} }

NextNullifiers ==
  \/ Initialize("admin", 20, 1, "abi")
  \/ /\ Len(appended) = 0
     /\ AddRoot("admin", "admin", "R1")
  \/ \E c \in {CIRCUIT_TRANSFER, CIRCUIT_UNSHIELD} :
       SetVerificationKey("admin", "admin", c, GoodKey(n_public_of(c)),
                          Sha256(GoodKey(n_public_of(c))))
  \/ \E q \in WideTransferRequests : SubmitTransfer(q.proof, q.inputs)
  \/ \E q \in WideUnshieldRequests : SubmitUnshield(q.proof, q.inputs, q.recipient)

SpecNullifiers == Init /\ [][NextNullifiers]_vars

\* The key registry on its own: keys with one all-zero point (alpha, beta,
\* gamma, delta, the first and the last IC element) for the shield and the
\* transfer circuit, and shield submissions checked against them.
ZeroPointRanges(n) ==
  { <<1, 2>>, <<3, 6>>, <<7, 10>>, <<11, 14>>, <<15, 16>>,
    <<13 + 2 * (n + 1), 14 + 2 * (n + 1)>> }

WideKeyRequests ==
  { [circuit |-> c, vk_data |-> GoodKey(n_public_of(c)),
     vk_hash |-> Sha256(GoodKey(n_public_of(c)))] :
      c \in {CIRCUIT_SHIELD, CIRCUIT_TRANSFER} }
  \cup
  UNION { { [circuit |-> c,
             vk_data |-> KeyWithZeroAt(n_public_of(c), z[1], z[2]),
             vk_hash |-> Sha256(KeyWithZeroAt(n_public_of(c), z[1], z[2]))] :
              z \in ZeroPointRanges(n_public_of(c)) } :
          c \in {CIRCUIT_SHIELD, CIRCUIT_TRANSFER} }

\* shield submissions in which more than one step of the pipeline would fail
WideShieldRequests ==
  ShieldRequests
  \cup
  { [proof |-> p, inputs |-> i] :
      p \in {ZeroAProof, ShortProof}, i \in {<<"C1">>, <<"Big">>} }

NextKeys ==
  \/ Initialize("admin", 20, 1, "abi")
  \/ /\ Len(appended) = 0
     /\ AddRoot("admin", "admin", "R1")
  \/ \E p \in BOOLEAN : SetPaused("admin", "admin", p)
  \/ \E k \in WideKeyRequests :
       SetVerificationKey("admin", "admin", k.circuit, k.vk_data, k.vk_hash)
  \/ \E q \in WideShieldRequests : SubmitShield(q.proof, q.inputs)

SpecKeys == Init /\ [][NextKeys]_vars

\* The endianness adapter on its own.  The handlers never call it, so it is
\* driven directly: a field element or a G1 point is drawn and converted up
\* to MaxConversions times.
FieldElements == { WordTable[w] : w \in Words } \cup { [i \in 1..32 |-> i] }

PointCoordinates ==
  { WordTable["R1"], WordTable["R2"], WordTable["V1000"], WordTable["LoA"],
    [i \in 1..32 |-> i] }

G1Points == { [x |-> a, y |-> b] : a \in PointCoordinates, b \in PointCoordinates }

InitCodec ==
  /\ exists = FALSE
  /\ config = NoConfig
  /\ vk = NoVk
  /\ roots = NoRoots
  /\ nullifiers = NoNullifiers
  /\ lamports = [a \in Wallets \cup {"treasury"} |->
                   IF a = "treasury" THEN TreasuryFunding ELSE 0]
  /\ events = <<>>
  /\ last = [op |-> "none", res |-> "none", inserted |-> FALSE]
  /\ appended = <<>>
  /\ spent_log = <<>>
  /\ codec \in { [kind |-> "field", origin |-> f, value |-> f, steps |-> 0] :
                    f \in FieldElements }
               \cup
               { [kind |-> "g1", origin |-> p, value |-> p, steps |-> 0] :
                    p \in G1Points }

ConvertField ==
  /\ codec.kind = "field"
  /\ codec.steps < MaxConversions
  /\ codec' = [codec EXCEPT !.value = field_le_to_be(@), !.steps = @ + 1]
  /\ UNCHANGED << exists, config, vk, roots, nullifiers, lamports, events, last,
                  appended, spent_log >>

ConvertG1 ==
  /\ codec.kind = "g1"
  /\ codec.steps < MaxConversions
  /\ codec' = [codec EXCEPT !.value = g1_le_to_be(@), !.steps = @ + 1]
  /\ UNCHANGED << exists, config, vk, roots, nullifiers, lamports, events, last,
                  appended, spent_log >>

NextCodec == ConvertField \/ ConvertG1

SpecCodec == InitCodec /\ [][NextCodec]_vars

(***************************************************************************)
(* Properties                                                              *)
(***************************************************************************)
SubmitOps == {"submit_shield", "submit_transfer", "submit_unshield"}

SpendOps == {"submit_transfer", "submit_unshield"}

\* what each handler returns for request q in the current state
ShieldOutcome(q) == submit_shield(q.proof, q.inputs)

TransferOutcome(q) == submit_transfer(q.proof, q.inputs)

UnshieldOutcome(q) == submit_unshield(q.proof, q.inputs, q.recipient)

\* the NullifierSet, the balances and the events of the ledger once the
\* transaction with outcome out is over
NullifiersAfter(out) == Commit(out.res, nullifiers, out.nullifiers)

LamportsAfter(out) == Commit(out.res, lamports, out.lamports)

EventsAfter(out) == Commit(out.res, <<>>, out.events)

\* the nullifier is an entry of the committed NullifierSet
InNullifierSet(acct, n) == \E i \in 1..Len(acct.nullifiers) : acct.nullifiers[i] = n

\* the roots of the k most recent add_root calls
LastAppended(k) ==
  { appended[i] : i \in (Len(appended) - k + 1)..Len(appended) }

Min(a, b) == IF a < b THEN a ELSE b

\* the RootWindow as the history defines it
InWindow(r) == r \in LastAppended(Min(Len(appended), roots.capacity))

AppendedDistinct ==
  \A i, j \in 1..Len(appended) : i # j => appended[i] # appended[j]

\* the proof is 256 bytes and none of A, B, C is the all-zero point
WellFormedProof(proof) ==
  /\ ByteLen(proof) = 256
  /\ validate_proof_structure(parse_proof(proof)) = "Ok"

\* the checks submit_transfer and submit_unshield make before the root lookup
TransferReachesRootCheck(q) ==
  /\ exists
  /\ ~config.paused
  /\ Len(q.inputs) = TRANSFER_PUBLIC_INPUTS
  /\ config.vk_hashes[CIRCUIT_TRANSFER] # ZeroHash
  /\ vk[CIRCUIT_TRANSFER].vk_hash = config.vk_hashes[CIRCUIT_TRANSFER]

UnshieldReachesRootCheck(q) ==
  /\ exists
  /\ ~config.paused
  /\ Len(q.inputs) = UNSHIELD_PUBLIC_INPUTS
  /\ config.vk_hashes[CIRCUIT_UNSHIELD] # ZeroHash
  /\ vk[CIRCUIT_UNSHIELD].vk_hash = config.vk_hashes[CIRCUIT_UNSHIELD]
  /\ SubSeq(WordBytes(q.inputs[3]), 1, 16) \o SubSeq(WordBytes(q.inputs[4]), 1, 16)
       = Pubkey(q.recipient)
  /\ \A i \in 17..32 : WordBytes(q.inputs[3])[i] = 0 /\ WordBytes(q.inputs[4])[i] = 0

\* C1: each nullifier is consumed by at most one successful submit_transfer
\* or submit_unshield: the nullifiers of the successful submissions of a
\* behaviour are pairwise different.
C1_NullifierConsumedOnce ==
  \A i, j \in 1..Len(spent_log) :
    i # j => WordBytes(spent_log[i]) # WordBytes(spent_log[j])

\* a submission was turned away as already spent after an earlier one succeeded
C1_Witness ==
  /\ last.op \in SpendOps
  /\ last.res = "NullifierSpent"
  /\ Len(spent_log) >= 1

\* C2: a submission is accepted only if the pairing evaluator reports that
\* e(A,B) = e(alpha,beta) e(L,gamma) e(C,delta) holds for its proof, the
\* active key and its public inputs.
C2_AcceptedOnlyIfPairingHolds ==
  /\ \A q \in ShieldRequests :
       ShieldOutcome(q).res = "Ok" =>
         PairingIdentityHolds(q.proof, vk[CIRCUIT_SHIELD], q.inputs)
  /\ \A q \in TransferRequests :
       TransferOutcome(q).res = "Ok" =>
         PairingIdentityHolds(q.proof, vk[CIRCUIT_TRANSFER], q.inputs)
  /\ \A q \in UnshieldRequests :
       UnshieldOutcome(q).res = "Ok" =>
         PairingIdentityHolds(q.proof, vk[CIRCUIT_UNSHIELD], q.inputs)

C4_PausedRejectsSubmits ==
  exists /\ config.paused /\ last.op \in SubmitOps => last.res = "PoolPaused"

\* a submit on a paused pool whose keys are set and whose window holds a root
C4_Witness ==
  /\ config.paused
  /\ last.op = "submit_unshield"
  /\ last.res = "PoolPaused"
  /\ config.vk_hashes[CIRCUIT_UNSHIELD] # ZeroHash
  /\ roots.size > 0

\* C5: in submit_transfer and submit_unshield no validation step fails after
\* the nullifier has been inserted: a handler that has inserted returns Ok.
C5_ChecksPrecedeInsertion ==
  last.op \in SpendOps /\ last.inserted => last.res = "Ok"

\* the decoded values of an unshield request's amount and fee words
AmountOf(q) == field_to_u64(q.inputs[5])

FeeOf(q) == field_to_u64(q.inputs[6])

\* every check of submit_unshield other than fee <= amount passes
UnshieldPassesOtherChecks(q) ==
  /\ UnshieldReachesRootCheck(q)
  /\ contains_root(roots, q.inputs[1])
  /\ ~InNullifierSet(nullifiers, q.inputs[2])
  /\ verify_proof(vk[CIRCUIT_UNSHIELD], q.proof, q.inputs) = "Ok"
  /\ Len(nullifiers.nullifiers) < MAX_NULLIFIERS_PER_SHARD
  /\ AmountOf(q).res = "Ok"
  /\ FeeOf(q).res = "Ok"

\* the unshield requests whose fee word decodes to more than the amount word
FeeExceedingRequests ==
  { q \in UnshieldRequests :
      /\ Len(q.inputs) = UNSHIELD_PUBLIC_INPUTS
      /\ from_le_bytes(SubSeq(WordBytes(q.inputs[6]), 1, 8))
           > from_le_bytes(SubSeq(WordBytes(q.inputs[5]), 1, 8)) }

\* C6: an unshield that passes every other check and whose fee exceeds its
\* amount fails with FeeExceedsAmount; afterwards the nullifier is not in
\* the NullifierSet, no value has moved and no event exists.
C6_FeeExceedsAmountRejected ==
  \A q \in FeeExceedingRequests :
    UnshieldPassesOtherChecks(q) =>
      LET out == UnshieldOutcome(q) IN
      /\ out.res = "FeeExceedsAmount"
      /\ ~InNullifierSet(NullifiersAfter(out), q.inputs[2])
      /\ LamportsAfter(out) = lamports
      /\ EventsAfter(out) = <<>>

\* an otherwise acceptable unshield was rejected for its fee
C6_Witness ==
  /\ last.op = "submit_unshield"
  /\ last.res = "FeeExceedsAmount"
  /\ last.inserted
  /\ nullifiers.nullifiers = <<>>

\* the preconditions the transfer scenario names
TransferScenario(q) ==
  /\ exists
  /\ ~config.paused
  /\ config.vk_hashes[CIRCUIT_TRANSFER] # ZeroHash
  /\ Len(q.inputs) = TRANSFER_PUBLIC_INPUTS
  /\ WellFormedProof(q.proof)
  /\ InWindow(q.inputs[1])

\* the transfer succeeds, its nullifier is spent and NewCommitment is emitted
TransferAccepted(q) ==
  LET out == TransferOutcome(q) IN
  /\ out.res = "Ok"
  /\ InNullifierSet(NullifiersAfter(out), q.inputs[2])
  /\ \E i \in 1..Len(EventsAfter(out)) :
       EventsAfter(out)[i] = <<"NewCommitment", q.inputs[3], CIRCUIT_TRANSFER>>

\* the transfer fails with the kind the code names NullifierSpent (the
\* AlreadySpent kind) and changes nothing
TransferTurnedAway(q) ==
  LET out == TransferOutcome(q) IN
  /\ out.res = "NullifierSpent"
  /\ NullifiersAfter(out) = nullifiers
  /\ LamportsAfter(out) = lamports
  /\ EventsAfter(out) = <<>>

\* the request repeats the transfer that has just succeeded
RepeatsLastTransfer(q) ==
  /\ last.op = "submit_transfer"
  /\ last.res = "Ok"
  /\ Len(events) = 2
  /\ events[1] = <<"NullifierSpent", q.inputs[2], CIRCUIT_TRANSFER>>
  /\ events[2] = <<"NewCommitment", q.inputs[3], CIRCUIT_TRANSFER>>

\* the key passes the structural check and every input the range check
TransferKeyAndInputsValid(q) ==
  /\ vk[CIRCUIT_TRANSFER].vk_data[1] # 0 \/ vk[CIRCUIT_TRANSFER].vk_data[2] # 0
  /\ \A i \in 1..Len(q.inputs) : WordBytes(q.inputs[i])[32] < 48

\* C7 as stated: unpaused, transfer key set, root in the window, nullifier
\* unspent and the set below capacity, well-formed non-degenerate proof:
\* the transfer succeeds, spends N and emits NewCommitment{C'}; the same
\* request directly afterwards fails with AlreadySpent and changes nothing.
C7_TransferScenario_AsStated ==
  \A q \in TransferRequests :
    TransferScenario(q) =>
      /\ ( /\ ~InNullifierSet(nullifiers, q.inputs[2])
           /\ Len(nullifiers.nullifiers) < MAX_NULLIFIERS_PER_SHARD )
           => TransferAccepted(q)
      /\ RepeatsLastTransfer(q) => TransferTurnedAway(q)

\* C7 amended: as stated, for a registered key whose alpha point is not
\* all-zero and public inputs whose most-significant byte is below 0x30.
C7_TransferScenario ==
  \A q \in TransferRequests :
    TransferScenario(q) /\ TransferKeyAndInputsValid(q) =>
      /\ ( /\ ~InNullifierSet(nullifiers, q.inputs[2])
           /\ Len(nullifiers.nullifiers) < MAX_NULLIFIERS_PER_SHARD )
           => TransferAccepted(q)
      /\ RepeatsLastTransfer(q) => TransferTurnedAway(q)

\* a transfer succeeded and the same nullifier was then turned away
C7_Witness ==
  /\ last.op = "submit_transfer"
  /\ last.res = "NullifierSpent"
  /\ Len(spent_log) = 1
  /\ nullifiers.nullifiers = spent_log
  /\ ~config.paused

\* the root is in the window, hence one that add_root has appended
AcceptableRoot(r) ==
  /\ InWindow(r)
  /\ \E i \in 1..Len(appended) : appended[i] = r

\* C8: submit_transfer and submit_unshield succeed only if public input 0 is
\* in the RootWindow at the time of the submission, hence is a root add_root
\* has appended; a submission that gets as far as the root lookup with a
\* root outside the window fails with RootNotFound.
C8_RootMustBeInWindow ==
  /\ \A q \in TransferRequests :
       LET out == TransferOutcome(q) IN
       /\ out.res = "Ok" => AcceptableRoot(q.inputs[1])
       /\ TransferReachesRootCheck(q) /\ ~InWindow(q.inputs[1])
            => out.res = "RootNotFound"
  /\ \A q \in UnshieldRequests :
       LET out == UnshieldOutcome(q) IN
       /\ out.res = "Ok" => AcceptableRoot(q.inputs[1])
       /\ UnshieldReachesRootCheck(q) /\ ~InWindow(q.inputs[1])
            => out.res = "RootNotFound"

\* a submission was turned away for its root while the window held a root
\* and still had a slot never written
C8_Witness ==
  /\ last.op \in SpendOps
  /\ last.res = "RootNotFound"
  /\ 0 < roots.size
  /\ roots.size < roots.capacity

\* C9: after any sequence of add_root calls on a fresh pool, contains_root(r)
\* is true iff r is one of the last min(k, capacity) appended roots.
C9_ContainsIffRecent ==
  exists => \A r \in Words : contains_root(roots, r) <=> InWindow(r)

\* capacity + 1 distinct roots appended: the first one is gone, the last
\* capacity ones are found
C9_Witness ==
  /\ exists
  /\ roots.capacity = 2
  /\ Len(appended) = roots.capacity + 1
  /\ AppendedDistinct
  /\ ~contains_root(roots, appended[1])
  /\ contains_root(roots, appended[2])
  /\ contains_root(roots, appended[3])

\* C10 as stated: after capacity + 1 add_root calls with distinct roots the
\* write cursor equals 1, for every capacity initialize allows.
C10_CursorIsOne_AsStated ==
  exists /\ Len(appended) = roots.capacity + 1 /\ AppendedDistinct
    => roots.cursor = 1

\* C10 amended: after capacity + 1 add_root calls with distinct roots the
\* write cursor equals (capacity + 1) mod capacity: 1 for a capacity of 2 or
\* more, 0 for a capacity of 1.
C10_CursorAfterWrap ==
  exists /\ Len(appended) = roots.capacity + 1 /\ AppendedDistinct
    => /\ roots.capacity >= 2 => roots.cursor = 1
       /\ roots.capacity = 1 => roots.cursor = 0

\* the window of capacity 2 has wrapped once
C10_Witness ==
  /\ exists
  /\ roots.capacity = 2
  /\ Len(appended) = 3
  /\ AppendedDistinct
  /\ roots.cursor = 1
  /\ roots.size = 2

\* the add_root calls whose admin account is the one PoolConfig names
AuthorizedAddRoots ==
  { [signer |-> c.signer, admin |-> c.admin, root |-> r] :
      c \in { k \in AdminCalls : k.admin = config.admin }, r \in WindowRoots }

\* C11: in an initialized pool 0 <= cursor < capacity, 0 <= count <= capacity
\* and the slot array has capacity entries; add_root never fails once its
\* accounts are accepted; the count is the number of successful add_root
\* calls capped at capacity and the cursor that number modulo capacity, so
\* the count grows by one per add_root up to capacity, never decreases, and
\* no other operation changes cursor or count.
C11_WindowShape ==
  exists =>
    /\ 0 <= roots.cursor /\ roots.cursor < roots.capacity
    /\ 0 <= roots.size /\ roots.size <= roots.capacity
    /\ Len(roots.roots) = roots.capacity
    /\ roots.size = Min(Len(appended), roots.capacity)
    /\ roots.cursor = Len(appended) % roots.capacity
    /\ \A q \in AuthorizedAddRoots : add_root(q.signer, q.admin, q.root).res = "Ok"

\* an add_root succeeded on a window that was already full
C11_Witness ==
  /\ exists
  /\ last.op = "add_root"
  /\ last.res = "Ok"
  /\ Len(appended) > roots.capacity
  /\ roots.size = roots.capacity

\* the checks submit_transfer and submit_unshield make before the nullifier
\* lookup pass
TransferReachesNullifierCheck(q) ==
  TransferReachesRootCheck(q) /\ contains_root(roots, q.inputs[1])

UnshieldReachesNullifierCheck(q) ==
  UnshieldReachesRootCheck(q) /\ contains_root(roots, q.inputs[1])

\* C12: the NullifierSet has no duplicate entries; it is exactly the list of
\* the nullifiers of the successful submit_transfer and submit_unshield
\* calls in order, so each success adds the submitted nullifier and nothing
\* else and no other operation changes the set; inserting a nullifier that
\* is present fails with NullifierSpent (the AlreadySpent kind).
C12_NullifierSetIsSpendLog ==
  /\ \A i, j \in 1..Len(nullifiers.nullifiers) :
       i # j => WordBytes(nullifiers.nullifiers[i]) # WordBytes(nullifiers.nullifiers[j])
  /\ nullifiers.nullifiers = spent_log
  /\ \A n \in SubmitNullifiers :
       InNullifierSet(nullifiers, n) =>
         mark_spent(nullifiers, n) = [res |-> "NullifierSpent", acct |-> nullifiers]
  /\ \A q \in TransferRequests :
       TransferReachesNullifierCheck(q) /\ InNullifierSet(nullifiers, q.inputs[2])
         => TransferOutcome(q).res = "NullifierSpent"
  /\ \A q \in UnshieldRequests :
       UnshieldReachesNullifierCheck(q) /\ InNullifierSet(nullifiers, q.inputs[2])
         => UnshieldOutcome(q).res = "NullifierSpent"

\* a second distinct nullifier was spent by an unshield
C12_Witness ==
  /\ last.op = "submit_unshield"
  /\ last.res = "Ok"
  /\ Len(nullifiers.nullifiers) = 2

AdminOps == {"add_root", "set_paused", "set_verification_key"}

\* C13: nullifier entries are permanent: a nullifier that is in the
\* NullifierSet is in it after every step, the lazy shard initialization of
\* submit_transfer and submit_unshield included; add_root, set_paused and
\* set_verification_key leave the set as it is.
C13_EntriesPermanent ==
  [][ /\ \A n \in Words :
           InNullifierSet(nullifiers, n) => InNullifierSet(nullifiers', n)
      /\ last'.op \in AdminOps => nullifiers' = nullifiers ]_vars

\* a transfer was accepted into a shard that already held an entry
C13_Witness ==
  /\ last.op = "submit_transfer"
  /\ last.res = "Ok"
  /\ Len(nullifiers.nullifiers) = 2
  /\ nullifiers.nullifiers[1] # nullifiers.nullifiers[2]

\* what inserting n into the NullifierSet returns when the set is full
InsertAtCapacity(n) ==
  [ res  |-> IF InNullifierSet(nullifiers, n)
             THEN "NullifierSpent" ELSE "NullifierCapacityExceeded",
    acct |-> nullifiers ]

AdminKeyOutcome(k) ==
  set_verification_key(config.admin, config.admin, k.circuit, k.vk_data, k.vk_hash)

\* C15: set_verification_key called by the administrator fails with
\* VkHashMismatch (HashMismatch) whenever the claimed hash is not the digest
\* of the key bytes, and otherwise succeeds, replacing the slot of the
\* circuit and setting the active hash of the circuit to the digest.
C15_HashMismatchOrSuccess ==
  exists =>
    \A k \in KeyRequests :
      LET out == AdminKeyOutcome(k) IN
      /\ k.vk_hash # Sha256(k.vk_data) => out.res = "VkHashMismatch"
      /\ k.vk_hash = Sha256(k.vk_data) =>
           /\ out.res = "Ok"
           /\ out.vk[k.circuit].vk_data = k.vk_data
           /\ out.vk[k.circuit].vk_hash = Sha256(k.vk_data)
           /\ out.config.vk_hashes[k.circuit] = Sha256(k.vk_data)

\* C16 as stated: in an initialized pool the stored hash of each of the
\* three key slots is the digest of the stored key bytes and the stored
\* public-input count is the constant of the circuit.
C16_SlotHashIsDigest_AsStated ==
  exists =>
    \A c \in Circuits :
      /\ vk[c].vk_hash = Sha256(vk[c].vk_data)
      /\ vk[c].n_public = n_public_of(c)

\* C16 amended: the public-input count of each slot is the constant of the
\* circuit; a slot set_verification_key has written holds the digest of its
\* key bytes, which is also the active hash of the circuit; a slot never
\* written holds no key bytes and the all-zero hash, which is not the digest
\* of its bytes.
C16_SlotHashIsDigest ==
  exists =>
    \A c \in Circuits :
      /\ vk[c].circuit = c
      /\ vk[c].n_public = n_public_of(c)
      /\ vk[c].vk_hash = config.vk_hashes[c]
      /\ IF config.vk_hashes[c] = ZeroHash
         THEN vk[c].vk_data = <<>> /\ vk[c].vk_hash # Sha256(vk[c].vk_data)
         ELSE vk[c].vk_hash = Sha256(vk[c].vk_data)

\* the transfer slot holds a key and its digest, the shield slot none
C16_Witness ==
  /\ exists
  /\ last.op = "set_verification_key"
  /\ last.res = "Ok"
  /\ vk[CIRCUIT_TRANSFER].vk_data # <<>>
  /\ vk[CIRCUIT_TRANSFER].vk_hash = Sha256(vk[CIRCUIT_TRANSFER].vk_data)
  /\ vk[CIRCUIT_SHIELD].vk_data = <<>>

\* the pool is initialized and unpaused, the request carries the number of
\* public inputs fixed for circuit c, and the key of c has never been set
KeyNeverSet(c, q) ==
  /\ exists
  /\ ~config.paused
  /\ Len(q.inputs) = n_public_of(c)
  /\ config.vk_hashes[c] = ZeroHash

\* C17: on an unpaused pool a submission with the right number of public
\* inputs for a circuit whose active hash is the all-zero sentinel fails
\* with VkNotSet (KeyNotSet), whatever its root, nullifier and proof, and
\* the handler returns before it has touched any account.
C17_UnsetKeyRejected ==
  /\ \A q \in ShieldRequests :
       KeyNeverSet(CIRCUIT_SHIELD, q) => ShieldOutcome(q) = Reject("VkNotSet")
  /\ \A q \in TransferRequests :
       KeyNeverSet(CIRCUIT_TRANSFER, q) => TransferOutcome(q) = Reject("VkNotSet")
  /\ \A q \in UnshieldRequests :
       KeyNeverSet(CIRCUIT_UNSHIELD, q) => UnshieldOutcome(q) = Reject("VkNotSet")

\* a transfer was turned away for its unset key while the window held a root
C17_Witness ==
  /\ last.op = "submit_transfer"
  /\ last.res = "VkNotSet"
  /\ roots.size > 0
  /\ config.vk_hashes[CIRCUIT_SHIELD] # ZeroHash

\* none of the points A, B, C of the proof is the all-zero point
ProofHasNoZeroPoint(proof) ==
  /\ ~is_zero_g1(proof.a)
  /\ ~is_zero_g2(proof.b)
  /\ ~is_zero_g1(proof.c)

\* none of alpha, beta, gamma, delta and the IC elements is all-zero
KeyHasNoZeroPoint(key) ==
  /\ ~is_zero_g1(key.alpha_g1)
  /\ ~is_zero_g2(key.beta_g2)
  /\ ~is_zero_g2(key.gamma_g2)
  /\ ~is_zero_g2(key.delta_g2)
  /\ \A k \in 1..Len(key.ic) : ~is_zero_g1(key.ic[k])

\* the key of circuit c as the pipeline decodes it
ActiveKey(c) == parse_verification_key(vk[c].vk_data, vk[c].n_public)

\* C18: no submission is accepted whose proof (A, B, C) or whose active key
\* (alpha, beta, gamma, delta, any IC element) has an all-zero point.
C18_ZeroPointRejected ==
  /\ \A q \in ShieldRequests :
       ShieldOutcome(q).res = "Ok" =>
         /\ ProofHasNoZeroPoint(parse_proof(q.proof))
         /\ KeyHasNoZeroPoint(ActiveKey(CIRCUIT_SHIELD))
  /\ \A q \in TransferRequests :
       TransferOutcome(q).res = "Ok" =>
         /\ ProofHasNoZeroPoint(parse_proof(q.proof))
         /\ KeyHasNoZeroPoint(ActiveKey(CIRCUIT_TRANSFER))
  /\ \A q \in UnshieldRequests :
       UnshieldOutcome(q).res = "Ok" =>
         /\ ProofHasNoZeroPoint(parse_proof(q.proof))
         /\ KeyHasNoZeroPoint(ActiveKey(CIRCUIT_UNSHIELD))

\* the numbers the amount and fee words of the requests stand for
ValueOf(w) ==
  CASE w = "V100"  -> 100
    [] w = "V101"  -> 101
    [] w = "V256"  -> 256
    [] w = "V1000" -> 1000

\* the balances once net lamports have gone from the treasury to wallet to
BalancesAfterPayout(to, net) ==
  [ a \in DOMAIN lamports |->
      IF a = "treasury" THEN lamports[a] - net
      ELSE IF a = to THEN lamports[a] + net
      ELSE lamports[a] ]

\* C19: a successful submit_unshield with decoded amount a and fee f takes
\* exactly a - f from the pooled holding and adds exactly a - f to the
\* recipient (nothing moves when a - f = 0) and emits Unshielded with
\* amount a and fee f; every other step leaves all balances as they were.
C19_UnshieldMovesNet ==
  /\ [] ( \A q \in UnshieldRequests :
            LET out == UnshieldOutcome(q) IN
            out.res = "Ok" =>
              LET a == ValueOf(q.inputs[5])
                  f == ValueOf(q.inputs[6])
              IN /\ f <= a
                 /\ out.lamports = BalancesAfterPayout(q.recipient, a - f)
                 /\ a - f = 0 => out.lamports = lamports
                 /\ out.events[Len(out.events)]
                      = <<"Unshielded", q.recipient, a, f, q.inputs[2]>> )
  /\ [][ IF last'.op = "submit_unshield" /\ last'.res = "Ok"
         THEN /\ lamports'["treasury"] <= lamports["treasury"]
              /\ \E i \in 1..Len(events') :
                   /\ events'[i][1] = "Unshielded"
                   /\ lamports' =
                        BalancesAfterPayout(events'[i][2], events'[i][3] - events'[i][4])
         ELSE lamports' = lamports ]_vars

\* an unshield of amount 1000 and fee 100 has paid out 900
C19_Witness ==
  /\ last.op = "submit_unshield"
  /\ last.res = "Ok"
  /\ events[2] = <<"Unshielded", "acctA", 1000, 100, "N1">>
  /\ lamports["treasury"] = TreasuryFunding - 900
  /\ lamports["acctA"] = 900

\* the checks submit_unshield makes before it compares the recipient pass
UnshieldReachesRecipientCheck(q) ==
  /\ exists
  /\ ~config.paused
  /\ Len(q.inputs) = UNSHIELD_PUBLIC_INPUTS
  /\ config.vk_hashes[CIRCUIT_UNSHIELD] # ZeroHash

\* low-16(recipient_lo) followed by low-16(recipient_hi)
DecodedAddress(q) ==
  [ i \in 1..32 |-> IF i <= 16 THEN WordTable[q.inputs[3]][i]
                     ELSE WordTable[q.inputs[4]][i - 16] ]

\* C20: submit_unshield pays only the address decoded from recipient_lo and
\* recipient_hi: when the destination account passed by the caller has
\* another address the submission is rejected (with InvalidRecipient once it
\* gets as far as the comparison), no nullifier is inserted and no value
\* moves; in a successful unshield every account credited has the decoded
\* address.
C20_PaysDecodedRecipient ==
  \A q \in UnshieldRequests :
    LET out == UnshieldOutcome(q) IN
    /\ ( Len(q.inputs) = UNSHIELD_PUBLIC_INPUTS
         /\ PubkeyTable[q.recipient] # DecodedAddress(q) ) =>
           /\ out.res # "Ok"
           /\ UnshieldReachesRecipientCheck(q) => out.res = "InvalidRecipient"
           /\ NullifiersAfter(out) = nullifiers
           /\ LamportsAfter(out) = lamports
    /\ out.res = "Ok" =>
         \A w \in Wallets :
           LamportsAfter(out)[w] > lamports[w] => PubkeyTable[w] = DecodedAddress(q)

\* an unshield naming another destination account was turned away after an
\* earlier one had paid the decoded address
C20_Witness ==
  /\ last.op = "submit_unshield"
  /\ last.res = "InvalidRecipient"
  /\ lamports["acctA"] > 0
  /\ lamports["acctB"] = 0

\* a word has a non-zero byte among its upper 16 bytes
UpperBytesSet(w) == \E i \in 17..32 : WordTable[w][i] # 0

\* the split of a 32-byte address into two words with zero upper bytes
SplitLo(addr) == [i \in 1..32 |-> IF i <= 16 THEN addr[i] ELSE 0]

SplitHi(addr) == [i \in 1..32 |-> IF i <= 16 THEN addr[i + 16] ELSE 0]

\* C21: address decoding as submit_unshield uses it: the words lo, hi an
\* address splits into decode to that address, and an unshield that gets as
\* far as the decoding with a non-zero byte among the upper 16 bytes of
\* recipient_lo or recipient_hi is rejected with InvalidEncoding.
C21_AddressDecoding ==
  /\ \A a \in Wallets, lo, hi \in Words :
       ( WordTable[lo] = SplitLo(PubkeyTable[a])
         /\ WordTable[hi] = SplitHi(PubkeyTable[a]) ) =>
           /\ reconstruct_recipient(lo, hi) = PubkeyTable[a]
           /\ validate_recipient_roundtrip(PubkeyTable[a], lo, hi) = "Ok"
  /\ \A q \in UnshieldRequests :
       ( /\ UnshieldReachesRecipientCheck(q)
         /\ vk[CIRCUIT_UNSHIELD].vk_hash = config.vk_hashes[CIRCUIT_UNSHIELD]
         /\ UpperBytesSet(q.inputs[3]) \/ UpperBytesSet(q.inputs[4]) ) =>
           UnshieldOutcome(q).res = "InvalidEncoding"

\* u64::to_le_bytes: the n low bytes of v, least significant first
RECURSIVE to_le_bytes(_, _)
to_le_bytes(v, n) ==
  IF n = 0 THEN <<>> ELSE <<v % 256>> \o to_le_bytes(v \div 256, n - 1)

\* the amounts checked; the checker's integers end at 2^31 - 1
AmountSamples == {0, 100, 101, 256, 1000, 2147483647}

\* the word has a non-zero byte among bytes 8..32
HighBytesSet(w) == \E i \in 9..32 : WordTable[w][i] # 0

\* C22: field_to_u64 returns v for the word whose bytes 0..8 are the
\* little-endian encoding of v and whose bytes 8..32 are zero, and fails with
\* AmountTooLarge for every word with a non-zero byte among bytes 8..32; an
\* accepted unshield reports the amount and fee its words encode.
C22_AmountDecoding ==
  /\ \A v \in AmountSamples :
       /\ \E w \in Words : WordTable[w] = Pad32(to_le_bytes(v, 8))
       /\ \A w \in Words :
            WordTable[w] = Pad32(to_le_bytes(v, 8)) =>
              field_to_u64(w) = [res |-> "Ok", value |-> v]
  /\ \A w \in Words :
       IF HighBytesSet(w)
       THEN field_to_u64(w).res = "AmountTooLarge"
       ELSE /\ field_to_u64(w).res = "Ok"
            /\ Pad32(to_le_bytes(field_to_u64(w).value, 8)) = WordTable[w]
  /\ \A q \in UnshieldRequests :
       LET out == UnshieldOutcome(q) IN
       /\ out.res = "Ok" =>
            /\ ~HighBytesSet(q.inputs[5]) /\ ~HighBytesSet(q.inputs[6])
            /\ Pad32(to_le_bytes(out.events[2][3], 8)) = WordTable[q.inputs[5]]
            /\ Pad32(to_le_bytes(out.events[2][4], 8)) = WordTable[q.inputs[6]]
       /\ ( UnshieldPassesOtherChecks(q) /\ HighBytesSet(q.inputs[5]) ) =>
            out.res = "AmountTooLarge"

\* an unshield whose amount and fee words both encode 100 was accepted
C22_Witness ==
  /\ last.op = "submit_unshield"
  /\ last.res = "Ok"
  /\ events[2][3] = 100
  /\ events[2][4] = 100

\* what set_paused and set_verification_key return for an admin call
PauseOutcome(c, p) == set_paused(c.signer, c.admin, p)

KeyOutcome(c, k) ==
  set_verification_key(c.signer, c.admin, k.circuit, k.vk_data, k.vk_hash)

\* the config and the key slots once the transaction with outcome out is over
ConfigAfter(out) == Commit(out.res, config, out.config)

KeysAfter(out) == Commit(out.res, vk, out.vk)

\* the key requests that name one of the three circuits
SlotKeyRequests == { k \in KeyRequests : k.circuit \in Circuits }

\* C23 as stated: on an initialized pool a set_paused or set_verification_key
\* call signed by anyone but the registered administrator fails with
\* Unauthorized and leaves the pause flag, the key slots and the config key
\* hashes unchanged.
C23_OnlyAdmin_AsStated ==
  exists =>
    \A c \in AdminCalls :
      c.signer # config.admin =>
        /\ \A p \in BOOLEAN :
             /\ PauseOutcome(c, p).res = "Unauthorized"
             /\ ConfigAfter(PauseOutcome(c, p)) = config
        /\ \A k \in SlotKeyRequests :
             /\ KeyOutcome(c, k).res = "Unauthorized"
             /\ ConfigAfter(KeyOutcome(c, k)) = config
             /\ KeysAfter(KeyOutcome(c, k)) = vk

\* the kind a call of a signer that is not the administrator fails with
NonAdminKind(c) == IF c.admin = c.signer THEN "Unauthorized" ELSE "AccountNotSigner"

\* C23: set_paused and set_verification_key take effect only when the signer
\* is the registered administrator.  A call signed by anyone else leaves the
\* pause flag, the key slots and the config key hashes unchanged; it fails
\* with Unauthorized when the signer presents itself as admin and with
\* AccountNotSigner when it presents an admin account it has not signed for.
C23_OnlyAdmin ==
  exists =>
    \A c \in AdminCalls :
      /\ \A p \in BOOLEAN :
           LET out == PauseOutcome(c, p) IN
           /\ out.res = "Ok" => c.signer = config.admin
           /\ c.signer # config.admin =>
                out.res = NonAdminKind(c) /\ ConfigAfter(out) = config
      /\ \A k \in SlotKeyRequests :
           LET out == KeyOutcome(c, k) IN
           /\ out.res = "Ok" => c.signer = config.admin
           /\ c.signer # config.admin =>
                /\ out.res = NonAdminKind(c)
                /\ ConfigAfter(out) = config
                /\ KeysAfter(out) = vk

\* a key-set call of another signer was turned away on a paused pool that
\* has a shield key
C23_Witness ==
  /\ last.op = "set_verification_key"
  /\ last.res = "Unauthorized"
  /\ config.paused
  /\ config.vk_hashes[CIRCUIT_SHIELD] # ZeroHash

\* what add_root returns for an admin call with root r
RootOutcome(c, r) == add_root(c.signer, c.admin, r)

\* C24: on an initialized pool add_root appends a root only when the signer
\* is the registered administrator: a call signed by anyone else fails with
\* Unauthorized and leaves the RootWindow unchanged, whatever accounts the
\* caller supplies.
C24_AddRootOnlyAdmin ==
  exists =>
    \A c \in AdminCalls, r \in RootWords :
      LET out == RootOutcome(c, r) IN
      /\ out.res = "Ok" => c.signer = config.admin
      /\ c.signer # config.admin =>
           /\ out.res = "Unauthorized"
           /\ Commit(out.res, roots, out.roots) = roots

\* the events a successful transfer and a successful unshield publish
TransferEvents(q) ==
  << <<"NullifierSpent", q.inputs[2], CIRCUIT_TRANSFER>>,
     <<"NewCommitment", q.inputs[3], CIRCUIT_TRANSFER>> >>

UnshieldEvents(q) ==
  << <<"NullifierSpent", q.inputs[2], CIRCUIT_UNSHIELD>>,
     <<"Unshielded", q.recipient, AmountOf(q).value, FeeOf(q).value, q.inputs[2]>> >>

\* event i of the last transaction closes a spend: a NewCommitment of a
\* transfer or an Unshielded event
ClosesSpend(i) ==
  \/ events[i][1] = "Unshielded"
  \/ events[i][1] = "NewCommitment" /\ events[i][3] = CIRCUIT_TRANSFER

\* C25: a successful submit_transfer publishes NullifierSpent{nullifier} and
\* then NewCommitment{new_commitment}, a successful submit_unshield
\* NullifierSpent{nullifier} and then Unshielded{recipient, amount, fee}; a
\* rejected one publishes nothing.  The event log is the concatenation of
\* the events of the transactions, and in the events of every transaction a
\* NewCommitment of a transfer or an Unshielded event has the NullifierSpent
\* of the nullifier that transaction spent immediately before it.
C25_EventOrder ==
  /\ \A q \in TransferRequests :
       LET out == TransferOutcome(q) IN
       EventsAfter(out) = IF out.res = "Ok" THEN TransferEvents(q) ELSE <<>>
  /\ \A q \in UnshieldRequests :
       LET out == UnshieldOutcome(q) IN
       EventsAfter(out) = IF out.res = "Ok" THEN UnshieldEvents(q) ELSE <<>>
  /\ \A i \in 1..Len(events) :
       ClosesSpend(i) =>
         /\ last.op \in SpendOps
         /\ last.res = "Ok"
         /\ i > 1
         /\ Len(spent_log) > 0
         /\ events[i - 1][1] = "NullifierSpent"
         /\ events[i - 1][2] = spent_log[Len(spent_log)]
         /\ events[i][1] = "Unshielded" => events[i][5] = events[i - 1][2]

\* a transfer of N2 has published its two events
C25_Witness ==
  /\ last.op = "submit_transfer"
  /\ events = << <<"NullifierSpent", "N2", CIRCUIT_TRANSFER>>,
                 <<"NewCommitment", "C1", CIRCUIT_TRANSFER>> >>

\* the preconditions the shield scenario names: an unpaused pool, one input,
\* a well-formed non-degenerate proof, a registered matching shield key
ShieldScenario(q) ==
  /\ exists
  /\ ~config.paused
  /\ Len(q.inputs) = SHIELD_PUBLIC_INPUTS
  /\ WellFormedProof(q.proof)
  /\ config.vk_hashes[CIRCUIT_SHIELD] # ZeroHash
  /\ vk[CIRCUIT_SHIELD].vk_hash = config.vk_hashes[CIRCUIT_SHIELD]
  /\ vk[CIRCUIT_SHIELD].vk_hash = Sha256(vk[CIRCUIT_SHIELD].vk_data)

\* the shield succeeds and publishes NewCommitment{C} and nothing else
ShieldAccepted(q) ==
  /\ ShieldOutcome(q).res = "Ok"
  /\ EventsAfter(ShieldOutcome(q)) = << <<"NewCommitment", q.inputs[1], CIRCUIT_SHIELD>> >>

\* submit_shield hands back every account as it found it
ShieldTouchesNothing(q) ==
  LET out == ShieldOutcome(q) IN
  /\ out.roots = roots
  /\ out.nullifiers = nullifiers
  /\ out.lamports = lamports
  /\ out.vk = vk
  /\ out.config = config

\* C26 as stated: in the shield scenario submit_shield succeeds and emits
\* exactly NewCommitment{C}; whether it succeeds or fails it leaves the
\* RootWindow, the NullifierSet, the pooled holding, the key slots and the
\* pause flag unchanged.
C26_ShieldScenario_AsStated ==
  \A q \in ShieldRequests :
    /\ ShieldScenario(q) => ShieldAccepted(q)
    /\ ShieldTouchesNothing(q)

\* C26: in the shield scenario, when moreover the point alpha of the
\* registered key is not all-zero and the last byte of C is below 0x30,
\* submit_shield succeeds and emits exactly NewCommitment{C}; with a zero
\* alpha it fails with InvalidVkData and with a larger last byte with
\* FieldOutOfRange.  Whether it succeeds or fails it leaves the RootWindow,
\* the NullifierSet, the pooled holding, the key slots and the pause flag
\* unchanged.
C26_ShieldScenario ==
  \A q \in ShieldRequests :
    /\ ShieldScenario(q) =>
         IF is_zero_g1(ActiveKey(CIRCUIT_SHIELD).alpha_g1)
         THEN ShieldOutcome(q).res = "InvalidVkData"
         ELSE IF ~(WordTable[q.inputs[1]][32] < 48)
         THEN ShieldOutcome(q).res = "FieldOutOfRange"
         ELSE ShieldAccepted(q)
    /\ ShieldTouchesNothing(q)

\* a shield was accepted on a pool whose window holds a root
C26_Witness ==
  /\ last.op = "submit_shield"
  /\ last.res = "Ok"
  /\ events = << <<"NewCommitment", "C1", CIRCUIT_SHIELD>> >>
  /\ roots.size > 0

\* C27: on an initialized, unpaused pool submit_shield with a count other
\* than 1, submit_transfer with a count other than 4 and submit_unshield
\* with a count other than 6 return InvalidPublicInputCount before any key,
\* root or nullifier check and before any account is touched; an accepted
\* submission has the fixed count and its inputs were read at the fixed
\* positions [commitment], [root, nullifier, new_commitment, fee],
\* [root, nullifier, recipient_lo, recipient_hi, amount, fee].
C27_InputCountFixed ==
  /\ \A q \in ShieldRequests :
       LET out == ShieldOutcome(q) IN
       /\ ( exists /\ ~config.paused /\ Len(q.inputs) # 1 ) =>
            out = Reject("InvalidPublicInputCount")
       /\ out.res = "Ok" =>
            /\ Len(q.inputs) = 1
            /\ out.events = << <<"NewCommitment", q.inputs[1], CIRCUIT_SHIELD>> >>
  /\ \A q \in TransferRequests :
       LET out == TransferOutcome(q) IN
       /\ ( exists /\ ~config.paused /\ Len(q.inputs) # 4 ) =>
            out = Reject("InvalidPublicInputCount")
       /\ out.res = "Ok" =>
            /\ Len(q.inputs) = 4
            /\ InWindow(q.inputs[1])
            /\ out.nullifiers.nullifiers = Append(nullifiers.nullifiers, q.inputs[2])
            /\ out.events[1][2] = q.inputs[2]
            /\ out.events[2][2] = q.inputs[3]
  /\ \A q \in UnshieldRequests :
       LET out == UnshieldOutcome(q) IN
       /\ ( exists /\ ~config.paused /\ Len(q.inputs) # 6 ) =>
            out = Reject("InvalidPublicInputCount")
       /\ out.res = "Ok" =>
            /\ Len(q.inputs) = 6
            /\ InWindow(q.inputs[1])
            /\ out.nullifiers.nullifiers = Append(nullifiers.nullifiers, q.inputs[2])
            /\ PubkeyTable[out.events[2][2]] =
                 SubSeq(WordTable[q.inputs[3]], 1, 16) \o SubSeq(WordTable[q.inputs[4]], 1, 16)
            /\ out.events[2][3] = ValueOf(q.inputs[5])
            /\ out.events[2][4] = ValueOf(q.inputs[6])

\* an unshield with a wrong count was turned away on an unpaused pool that
\* has no unshield key and no root
C27_Witness ==
  /\ last.op = "submit_unshield"
  /\ last.res = "InvalidPublicInputCount"
  /\ ~config.paused
  /\ config.vk_hashes[CIRCUIT_UNSHIELD] = ZeroHash
  /\ roots.size = 0

\* C28: once initialize has succeeded, the merkle depth, the root-window
\* capacity (PoolConfig.root_window and RootsAccount.capacity, which are
\* equal) and the administrator never change, whatever add_root,
\* set_verification_key, set_paused and submit operations follow, and every
\* further initialize fails.
C28_ConfigFixed ==
  /\ [](exists => /\ config.root_window = roots.capacity
                  /\ Len(roots.roots) = roots.capacity)
  /\ [][ exists =>
           /\ exists'
           /\ config'.merkle_depth = config.merkle_depth
           /\ config'.root_window = config.root_window
           /\ roots'.capacity = roots.capacity
           /\ config'.admin = config.admin
           /\ last'.op = "initialize" => last'.res = "AccountAlreadyInUse" ]_vars

\* a second initialize was turned away on a paused pool whose window holds
\* a root
C28_Witness ==
  /\ last.op = "initialize"
  /\ last.res = "AccountAlreadyInUse"
  /\ config.paused
  /\ roots.size > 0

\* what initialize returns for the arguments i = <<merkle_depth, root_window>>
InitializeOutcome(i) == initialize("admin", i[1], i[2], "abi")

\* C29: on a pool that does not exist yet, initialize fails with
\* InvalidMerkleDepth unless 1 <= merkle_depth <= MAX_MERKLE_DEPTH, and
\* otherwise with InvalidRootWindow unless 1 <= root_window <=
\* MAX_ROOT_WINDOW; on success the pool is unpaused, the three key hashes
\* are the all-zero sentinel, the RootWindow has capacity root_window,
\* cursor 0 and count 0, and the NullifierSet is empty.
C29_InitializeChecks ==
  /\ ~exists =>
       \A i \in InitializeRequests :
         LET out == InitializeOutcome(i) IN
         IF ~(1 <= i[1] /\ i[1] <= MAX_MERKLE_DEPTH)
         THEN out = Reject("InvalidMerkleDepth")
         ELSE IF ~(1 <= i[2] /\ i[2] <= MAX_ROOT_WINDOW)
         THEN out = Reject("InvalidRootWindow")
         ELSE /\ out.res = "Ok"
              /\ ~out.config.paused
              /\ out.config.merkle_depth = i[1]
              /\ out.config.root_window = i[2]
              /\ \A c \in Circuits :
                   /\ out.config.vk_hashes[c] = ZeroHash
                   /\ out.vk[c].vk_hash = ZeroHash
              /\ out.roots.capacity = i[2]
              /\ out.roots.cursor = 0
              /\ out.roots.size = 0
              /\ \A r \in Words : ~contains_root(out.roots, r)
              /\ out.nullifiers.nullifiers = <<>>
  /\ ( last.op = "initialize" /\ last.res = "Ok" ) =>
       /\ exists
       /\ ~config.paused
       /\ \A c \in Circuits : config.vk_hashes[c] = ZeroHash
       /\ roots.capacity = config.root_window
       /\ roots.cursor = 0
       /\ roots.size = 0
       /\ nullifiers.nullifiers = <<>>

\* the pool has just been created with the largest window
C29_Witness ==
  /\ last.op = "initialize"
  /\ last.res = "Ok"
  /\ roots.capacity = MAX_ROOT_WINDOW

\* what the handlers return for the requests of SpecNullifiers
WideTransferOutcome(q) == submit_transfer(q.proof, q.inputs)

WideUnshieldOutcome(q) == submit_unshield(q.proof, q.inputs, q.recipient)

\* the step is a successful transfer or unshield
SpendCommitted == last'.op \in SpendOps /\ last'.res = "Ok"

\* C30: every handler runs as one transaction, so two pending submissions
\* are executed one after the other in some order.  When two submissions
\* (transfers, unshields or one of each) that carry the same nullifier are
\* both acceptable and one of them is executed, it succeeds and the other
\* one then fails with NullifierSpent (AlreadySpent): in either order
\* exactly one succeeds.
C30_SameNullifierOneWinner ==
  [][ SpendCommitted =>
        /\ spent_log' = Append(spent_log, spent_log'[Len(spent_log')])
        /\ \A q \in WideTransferRequests :
             ( WideTransferOutcome(q).res = "Ok"
               /\ q.inputs[2] = spent_log'[Len(spent_log')] ) =>
                 (WideTransferOutcome(q).res = "NullifierSpent")'
        /\ \A q \in WideUnshieldRequests :
             ( WideUnshieldOutcome(q).res = "Ok"
               /\ q.inputs[2] = spent_log'[Len(spent_log')] ) =>
                 (WideUnshieldOutcome(q).res = "NullifierSpent")' ]_vars

\* a transfer of N1 was turned away after an unshield of N1 had paid out
C30_Witness ==
  /\ last.op = "submit_transfer"
  /\ last.res = "NullifierSpent"
  /\ spent_log = <<"N1">>
  /\ lamports["acctA"] = 900

\* key accounts, proofs and public inputs the pipeline is evaluated on: every
\* combination of a right and a wrong count, proof length, key length, zero
\* point and out-of-range input
SampleKeyAccounts ==
  { [circuit |-> CIRCUIT_SHIELD, n_public |-> SHIELD_PUBLIC_INPUTS, vk_data |-> d,
     vk_hash |-> Sha256(d)] :
      d \in { GoodKey(SHIELD_PUBLIC_INPUTS), ZeroAlphaKey(SHIELD_PUBLIC_INPUTS),
              ShortKey(SHIELD_PUBLIC_INPUTS), <<>> } }

SampleProofs == {SoundProof, ZeroAProof, ShortProof}

SampleInputs == { <<"C1">>, <<"Big">>, <<>>, <<"C1", "C1">>, <<"C1", "Big">> }

\* the steps of the pipeline that fail for an account, a proof and inputs,
\* numbered in the order (a) 1, (b) 2, (c) 3, (d) proof 4, (d) key 5, (e) 6
FailingSteps(acct, proof, inputs) ==
  { s \in 1..6 :
      CASE s = 1 -> Len(inputs) # acct.n_public
        [] s = 2 -> ByteLen(proof) # 256
        [] s = 3 -> ByteLen(acct.vk_data) # 448 + 64 * (acct.n_public + 1)
        [] s = 4 -> /\ ByteLen(proof) = 256
                    /\ \/ \A k \in 1..2 : proof[k] = 0
                       \/ \A k \in 3..6 : proof[k] = 0
                       \/ \A k \in 7..8 : proof[k] = 0
        [] s = 5 -> /\ ByteLen(acct.vk_data) = 448 + 64 * (acct.n_public + 1)
                    /\ acct.vk_data[1] = 0
                    /\ acct.vk_data[2] = 0
        [] s = 6 -> \E i \in 1..Len(inputs) : WordTable[inputs[i]][32] >= 48 }

\* the rejection kind of each step
KindOfStep(s) ==
  CASE s = 1 -> "InvalidPublicInputCount"
    [] s = 2 -> "InvalidProofData"
    [] s = 3 -> "InvalidVkData"
    [] s = 4 -> "InvalidProofData"
    [] s = 5 -> "InvalidVkData"
    [] s = 6 -> "FieldOutOfRange"

\* the kind of the first failing step, Ok when none fails
FirstFailure(acct, proof, inputs) ==
  LET failing == FailingSteps(acct, proof, inputs) IN
  IF failing = {} THEN "Ok"
  ELSE KindOfStep(CHOOSE s \in failing : \A t \in failing : s <= t)

\* the checks submit_shield makes before it calls verify_proof pass
ShieldReachesPipeline(q) ==
  /\ exists
  /\ ~config.paused
  /\ Len(q.inputs) = SHIELD_PUBLIC_INPUTS
  /\ config.vk_hashes[CIRCUIT_SHIELD] # ZeroHash
  /\ vk[CIRCUIT_SHIELD].vk_hash = config.vk_hashes[CIRCUIT_SHIELD]

\* C31: verify_proof checks (a) the public-input count against the key's n,
\* (b) the proof length 256, (c) the key length 448 + 64 (n + 1), (d) the
\* structure of the proof and then of the key, (e) the field range of every
\* input, and reports the kind of the first step that fails; a shield
\* submission that reaches the pipeline is answered with that kind.
C31_PipelineOrder ==
  /\ \A acct \in SampleKeyAccounts, proof \in SampleProofs, inputs \in SampleInputs :
       verify_proof(acct, proof, inputs) = FirstFailure(acct, proof, inputs)
  /\ \A q \in WideShieldRequests :
       ShieldReachesPipeline(q) =>
         ShieldOutcome(q).res = FirstFailure(vk[CIRCUIT_SHIELD], q.proof, q.inputs)

\* a shield was rejected for its proof on a pool whose registered shield key
\* has an all-zero alpha
C31_Witness ==
  /\ last.op = "submit_shield"
  /\ last.res = "InvalidProofData"
  /\ config.vk_hashes[CIRCUIT_SHIELD] # ZeroHash
  /\ vk[CIRCUIT_SHIELD].vk_data = ZeroAlphaKey(SHIELD_PUBLIC_INPUTS)

\* BN254_SCALAR_FIELD, most significant byte first
ModulusBytes ==
  << 48, 100, 78, 114, 225, 49, 160, 41, 184, 80, 69, 182, 129, 129, 88, 93,
     40, 51, 232, 72, 121, 185, 112, 145, 67, 225, 245, 147, 240, 0, 0, 1 >>

\* the bytes of a little-endian word, most significant first
MostSignificantFirst(bytes) == [i \in 1..32 |-> bytes[33 - i]]

\* a < b for two numbers given most significant byte first
RECURSIVE LessThan(_, _)
LessThan(a, b) ==
  IF Len(a) = 0 THEN FALSE
  ELSE IF Head(a) # Head(b) THEN Head(a) < Head(b)
  ELSE LessThan(Tail(a), Tail(b))

BelowModulus(w) == LessThan(MostSignificantFirst(WordTable[w]), ModulusBytes)

\* the most significant byte of the word is 0x30 or more
TopByteHigh(w) == WordTable[w][32] >= 48

\* input sequences of the three counts with one word w at position k
InputsWithWordAt(w) ==
  { [i \in 1..n |-> IF i = k THEN w ELSE "C1"] : n \in {1, 4, 6}, k \in 1..6 }

\* the check, applied to every word of the model at every position, rejects
\* exactly the words whose top byte is high and passes only words below the
\* modulus
RangeCheckOnWords ==
  \A w \in Words :
    /\ \A inputs \in InputsWithWordAt(w) :
         validate_public_inputs(inputs) =
           IF \E i \in 1..Len(inputs) : TopByteHigh(inputs[i])
           THEN "FieldOutOfRange" ELSE "Ok"
    /\ validate_public_inputs(<<w>>) = "Ok" => BelowModulus(w)

\* C32: validate_public_inputs rejects with FieldOutOfRange exactly when
\* some public input has byte 31 at 0x30 or more, whatever the position of
\* that input, and every word it lets through is below the scalar-field
\* modulus; a submission is accepted only if all its inputs pass, and one
\* that passes every earlier check with such an input fails with
\* FieldOutOfRange.
C32_FieldRangeCheck ==
  /\ RangeCheckOnWords
  /\ \A q \in ShieldRequests :
       /\ ShieldOutcome(q).res = "Ok" =>
            \A i \in 1..Len(q.inputs) : ~TopByteHigh(q.inputs[i])
       /\ ( ShieldReachesPipeline(q) /\ WellFormedProof(q.proof)
            /\ TopByteHigh(q.inputs[1]) ) =>
              ShieldOutcome(q).res = "FieldOutOfRange"
  /\ \A q \in TransferRequests :
       /\ TransferOutcome(q).res = "Ok" =>
            \A i \in 1..Len(q.inputs) : ~TopByteHigh(q.inputs[i])
       /\ ( /\ TransferReachesRootCheck(q)
            /\ contains_root(roots, q.inputs[1])
            /\ ~InNullifierSet(nullifiers, q.inputs[2])
            /\ WellFormedProof(q.proof)
            /\ validate_vk_structure(ActiveKey(CIRCUIT_TRANSFER)) = "Ok"
            /\ \E i \in 1..Len(q.inputs) : TopByteHigh(q.inputs[i]) ) =>
              TransferOutcome(q).res = "FieldOutOfRange"
  /\ \A q \in UnshieldRequests :
       /\ UnshieldOutcome(q).res = "Ok" =>
            \A i \in 1..Len(q.inputs) : ~TopByteHigh(q.inputs[i])
       /\ ( /\ UnshieldReachesRootCheck(q)
            /\ contains_root(roots, q.inputs[1])
            /\ ~InNullifierSet(nullifiers, q.inputs[2])
            /\ WellFormedProof(q.proof)
            /\ validate_vk_structure(ActiveKey(CIRCUIT_UNSHIELD)) = "Ok"
            /\ \E i \in 1..Len(q.inputs) : TopByteHigh(q.inputs[i]) ) =>
              UnshieldOutcome(q).res = "FieldOutOfRange"

\* an unshield was rejected for an input out of range
C32_Witness ==
  /\ last.op = "submit_unshield"
  /\ last.res = "FieldOutOfRange"

\* C33: for each circuit the key hash in PoolConfig equals the hash stored
\* in the key slot of the circuit: both are all-zero while the slot holds no
\* key, both are the digest just registered after a successful
\* set_verification_key; and no submit_shield, submit_transfer or
\* submit_unshield fails with VkHashMismatch.
C33_ConfigHashIsSlotHash ==
  /\ exists =>
       \A c \in Circuits :
         /\ config.vk_hashes[c] = vk[c].vk_hash
         /\ vk[c].vk_data = <<>> =>
              config.vk_hashes[c] = ZeroHash /\ vk[c].vk_hash = ZeroHash
  /\ ( last.op = "set_verification_key" /\ last.res = "Ok" ) =>
       /\ config.vk_hashes[events[1][2]] = events[1][3]
       /\ vk[events[1][2]].vk_hash = events[1][3]
       /\ events[1][3] = Sha256(vk[events[1][2]].vk_data)
  /\ last.op \in SubmitOps => last.res # "VkHashMismatch"
  /\ \A q \in ShieldRequests : ShieldOutcome(q).res # "VkHashMismatch"
  /\ \A q \in TransferRequests : TransferOutcome(q).res # "VkHashMismatch"
  /\ \A q \in UnshieldRequests : UnshieldOutcome(q).res # "VkHashMismatch"

\* the unshield key has just been registered next to a shield key, the
\* transfer slot still empty
C33_Witness ==
  /\ last.op = "set_verification_key"
  /\ last.res = "Ok"
  /\ events[1][2] = CIRCUIT_UNSHIELD
  /\ config.vk_hashes[CIRCUIT_SHIELD] # ZeroHash
  /\ config.vk_hashes[CIRCUIT_TRANSFER] = ZeroHash

\* the unshield passes every check that precedes the subtraction
UnshieldReachesSubtraction(q) ==
  /\ UnshieldPassesOtherChecks(q)
  /\ FeeOf(q).value <= AmountOf(q).value

\* C34: submit_unshield never returns ArithmeticOverflow: amount - fee is
\* computed only when fee <= amount holds for the two decoded 64-bit values,
\* so the net is in 0..amount; the unshield then pays exactly that net or
\* fails for the balance of the treasury.
C34_NoUnderflow ==
  /\ last.res # "ArithmeticOverflow"
  /\ \A q \in UnshieldRequests :
       LET out == UnshieldOutcome(q) IN
       /\ out.res # "ArithmeticOverflow"
       /\ UnshieldReachesSubtraction(q) =>
            LET net == AmountOf(q).value - FeeOf(q).value IN
            /\ 0 <= net
            /\ net <= AmountOf(q).value
            /\ out.res \in {"Ok", "InsufficientFunds"}
            /\ out.res = "Ok" =>
                 out.lamports["treasury"] = lamports["treasury"] - net

\* an unshield whose fee equals its amount went through: the net was zero
C34_Witness ==
  /\ last.op = "submit_unshield"
  /\ last.res = "Ok"
  /\ events[2][3] - events[2][4] = 0
  /\ lamports["treasury"] = TreasuryFunding

\* b holds the bytes of a in the opposite order
Reversed(a, b) == \A i \in 0..31 : b[i + 1] = a[(31 - i) + 1]

\* C35: field_le_to_be reverses the byte order of a 32-byte field element
\* (output[i] = input[31 - i]) and applying it twice gives back the
\* original; g1_le_to_be does the same to each coordinate of a G1 point.
C35_EndiannessInvolution ==
  /\ codec.kind = "field" =>
       IF codec.steps % 2 = 1
       THEN Reversed(codec.origin, codec.value)
       ELSE codec.value = codec.origin
  /\ codec.kind = "g1" =>
       IF codec.steps % 2 = 1
       THEN /\ Reversed(codec.origin.x, codec.value.x)
            /\ Reversed(codec.origin.y, codec.value.y)
       ELSE codec.value = codec.origin

\* a G1 point whose x is not a palindrome has been converted twice
C35_Witness ==
  /\ codec.kind = "g1"
  /\ codec.steps = 2
  /\ codec.origin.x[1] # codec.origin.x[32]
  /\ codec.value = codec.origin

====
